---- MODULE Spec2Model ----
(***************************************************************************)
(* A model of the car aggregate service carServiceSupabase                 *)
(* (src/unnamed/part_000).  The relational store (tables cars,             *)
(* car_pricing, car_images, car_features, car_specifications) and the      *)
(* object store (bucket vehicle-images) are the state; every await of the  *)
(* service is one step of the calling process, so calls of different       *)
(* processes interleave at the remote-call boundaries.                     *)
(*                                                                         *)
(* A remote call resolves to {data, error}: it either takes effect         *)
(* (ok = TRUE) or reports an error and leaves the store as it was.  The    *)
(* store enforces no foreign key: the service deletes related rows itself. *)
(*                                                                         *)
(* The admin page HomepageSettingsPage                                     *)
(* (src/app/admin/homepage-settings/page.tsx) works on the table           *)
(* homepage_settings; its component state is the state of one caller.      *)
(***************************************************************************)
EXTENDS Integers, Sequences, FiniteSets, TLC

\* ------------------------------------------------------------------ bounds
\* Root inserts the store accepts (car identifiers 1..MaxCars).
MaxCars == 2
\* Writing service calls (createCar, updateCar, deleteCar) started in one
\* behaviour.
MaxCalls == 2

\* Car rows in the store when only the read operations run.
MaxFleet == 5

\* Image rows of the car the aggregate lookups read.
MaxImages == 3

\* Length of the names generateSlug is applied to on its own.
MaxLen == 4

\* ------------------------------------------------------------------ values
NULL == "null"
T == "true"
F == "false"

\* JavaScript truthiness of a nullable string value.
Truthy(v) == v \notin {NULL, "", F}

\* a ?? b
Coalesce(v, d) == IF v = NULL THEN d ELSE v

RECURSIVE SelectRows(_, _, _)
\* The rows of table tbl (a sequence) whose field fld lies in vals, in order.
SelectRows(tbl, fld, vals) ==
    IF tbl = <<>> THEN <<>>
    ELSE IF Head(tbl)[fld] \in vals
         THEN <<Head(tbl)>> \o SelectRows(Tail(tbl), fld, vals)
         ELSE SelectRows(Tail(tbl), fld, vals)

RECURSIVE DeleteRows(_, _, _)
\* Table tbl without the rows whose field fld lies in vals.
DeleteRows(tbl, fld, vals) ==
    IF tbl = <<>> THEN <<>>
    ELSE IF Head(tbl)[fld] \in vals
         THEN DeleteRows(Tail(tbl), fld, vals)
         ELSE <<Head(tbl)>> \o DeleteRows(Tail(tbl), fld, vals)

\* ------------------------------------------------------------ generateSlug
\* Strings that are processed character by character are sequences of
\* one-character strings over this alphabet.
LowerChars == {"a", "b"}
UpperChars == {"A"}
SpaceChars == {" "}
WordChars == LowerChars \cup UpperChars \cup {"_", "1"}
Chars == WordChars \cup SpaceChars \cup {"-", "!"}

\* String.prototype.toLowerCase, per character.
ToLowerChar(c) == IF c = "A" THEN "a" ELSE c
toLowerCase(s) == [i \in 1..Len(s) |-> ToLowerChar(s[i])]

RECURSIVE ReplaceRuns(_, _, _)
\* s.replace(/[set]+/g, rep): every maximal run of characters of `set`
\* becomes `rep`.
ReplaceRuns(s, set, rep) ==
    IF s = <<>> THEN <<>>
    ELSE IF Head(s) \in set
         THEN IF Len(s) > 1 /\ s[2] \in set
              THEN ReplaceRuns(Tail(s), set, rep)
              ELSE rep \o ReplaceRuns(Tail(s), set, rep)
         ELSE <<Head(s)>> \o ReplaceRuns(Tail(s), set, rep)

RECURSIVE TrimStart(_, _)
\* s.replace(/^c+/, '')
TrimStart(s, c) ==
    IF s # <<>> /\ Head(s) = c THEN TrimStart(Tail(s), c) ELSE s

RECURSIVE TrimEnd(_, _)
\* s.replace(/c+$/, '')
TrimEnd(s, c) ==
    IF s # <<>> /\ s[Len(s)] = c THEN TrimEnd(SubSeq(s, 1, Len(s) - 1), c) ELSE s

\* generateSlug without .replace(/--+/g, '-').
generateSlugNoCollapse(name) ==
    LET s1 == toLowerCase(name)
        s2 == ReplaceRuns(s1, SpaceChars, <<"-">>)
        s3 == ReplaceRuns(s2, Chars \ (WordChars \cup {"-"}), <<>>)
        s5 == TrimStart(s3, "-")
    IN  TrimEnd(s5, "-")

generateSlug(name) ==
    LET s1 == toLowerCase(name)
        s2 == ReplaceRuns(s1, SpaceChars, <<"-">>)
        s3 == ReplaceRuns(s2, Chars \ (WordChars \cup {"-"}), <<>>)
        s4 == ReplaceRuns(s3, {"-"}, <<"-">>)
        s5 == TrimStart(s4, "-")
    IN  TrimEnd(s5, "-")

\* ---------------------------------------------------------------- the state
VARIABLES
    cars,               \* table cars: car id -> row, for the ids that have a row
    car_pricing,        \* table car_pricing: sequence of rows
    car_images,         \* table car_images: sequence of rows
    car_features,       \* table car_features: sequence of rows
    car_specifications, \* table car_specifications: sequence of rows
    homepage_settings,  \* table homepage_settings: sequence of rows
    bucket,             \* object store: the paths that hold an object
    nextCarId,          \* next identifier the store gives a car row
    nextImageId,        \* next identifier the store gives an image row
    pc,                 \* per caller: the await its call is suspended at
    call,               \* per caller: the locals and the outcome of its call
    calls               \* writing service calls started so far

store == <<cars, car_pricing, car_images, car_features, car_specifications,
           homepage_settings, bucket, nextCarId, nextImageId>>
related == <<car_pricing, car_images, car_features, car_specifications>>
vars == <<cars, car_pricing, car_images, car_features, car_specifications,
          homepage_settings, bucket, nextCarId, nextImageId, pc, call, calls>>

Procs == {"p1", "p2"}
Paths == {"x", "y"}

\* An AppCarUpsert / Partial<AppCarUpsert> value.  `keys` holds the fields
\* that are present (not undefined); for pricing, images, features and
\* specifications a present field is a truthy one (an object, an array).
EmptyInput ==
    [keys |-> {}, name |-> <<>>, category |-> "", description |-> NULL,
     short_description |-> NULL, available |-> NULL, featured |-> NULL,
     hidden |-> NULL, pricing |-> [base_price |-> 0], images |-> <<>>,
     features |-> <<>>, specifications |-> <<>>]

Has(d, k) == k \in d.keys

\* A request to the relational or the object store as call[p].issued logs it,
\* in the order the requests reach the store: its name, the storage paths it
\* names and whether the store carried it out.
Req(name, paths, ok) == [req |-> name, paths |-> paths, ok |-> ok]

NoResult == [status |-> "none", via |-> "none", cause |-> "none", value |-> <<>>]
Returned(v) == [status |-> "ok", via |-> "none", cause |-> "none", value |-> v]
\* An error raised to the caller: `via` tells how it was built
\*   "validation"           new Error(<precondition message>)
\*   "raw"                  the store's error object, thrown as it is
\*   "handleSupabaseError"  new Error(handleSupabaseError(error))
\*   "generic"              new Error("An unexpected error occurred ...")
Raised(via, cause) == [status |-> "error", via |-> via, cause |-> cause, value |-> <<>>]

FreshCall(op, d, id) ==
    [op |-> op, input |-> d, carId |-> id, err |-> "none", issued |-> <<>>,
     existing |-> <<>>, pending |-> {}, failed |-> {}, limit |-> <<>>,
     category |-> "", slug |-> <<>>, result |-> NoResult,
     carOptions |-> {}, selectedCar |-> 0, currentSettingId |-> <<>>]

Init ==
    /\ cars = <<>>
    /\ car_pricing = <<>>
    /\ car_images = <<>>
    /\ car_features = <<>>
    /\ car_specifications = <<>>
    /\ bucket = Paths
    /\ nextCarId = 1
    /\ nextImageId = 1
    /\ homepage_settings = <<>>
    /\ pc = [p \in Procs |-> "idle"]
    /\ call = [p \in Procs |-> FreshCall("none", EmptyInput, 0)]
    /\ calls = 0

\* ---------------------------------------------------------------- createCar
\* The row createCar sends to cars.insert (baseCarPayload) as the store keeps
\* it; a column left undefined takes the column default NULL.
BaseCarPayload(d, id) ==
    [name |-> d.name,
     slug |-> generateSlug(d.name),
     category |-> d.category,
     description |-> IF Has(d, "description") THEN Coalesce(d.description, "") ELSE "",
     short_description |-> IF Has(d, "short_description") THEN d.short_description ELSE NULL,
     available |-> IF Has(d, "available") THEN Coalesce(d.available, T) ELSE T,
     featured |-> IF Has(d, "featured") THEN Coalesce(d.featured, F) ELSE F,
     hidden |-> IF Has(d, "hidden") THEN Coalesce(d.hidden, F) ELSE F,
     created_at |-> id]

ImageRows(imgs, carId, firstId) ==
    [i \in 1..Len(imgs) |->
        [id |-> firstId + i - 1, car_id |-> carId,
         path |-> imgs[i].path, sort_order |-> imgs[i].sort_order]]

ValueRows(vals, carId) == [i \in 1..Len(vals) |-> [car_id |-> carId, v |-> vals[i]]]

\* The related inserts of createCar, in order, and whether each is issued.
CreatePc == <<"create_pricing", "create_images", "create_features",
              "create_specifications">>
CreateNeeded(d, k) ==
    CASE k = 1 -> Has(d, "pricing")
      [] k = 2 -> Has(d, "images") /\ Len(d.images) > 0
      [] k = 3 -> Has(d, "features") /\ Len(d.features) > 0
      [] k = 4 -> Has(d, "specifications") /\ Len(d.specifications) > 0

\* Where createCar is suspended next after step k (0: the root insert).
CreateAfter(d, k) ==
    LET rest == {i \in (k + 1)..4 : CreateNeeded(d, i)}
    IN  IF rest = {} THEN "idle"
        ELSE CreatePc[CHOOSE i \in rest : \A j \in rest : i <= j]

\* Step k of createCar succeeded: go on, or return the assembled car.
CreateGoOn(p, k, req) ==
    LET c == call[p]
        to == CreateAfter(c.input, k)
    IN  /\ pc' = [pc EXCEPT ![p] = to]
        /\ call' = [call EXCEPT ![p] =
                      [c EXCEPT !.issued = Append(@, req),
                                !.result = IF to = "idle" THEN Returned(<<c.carId>>)
                                           ELSE @]]

\* A related insert failed: throw new Error("... insert failed") into the catch.
CreateThrow(p, req) ==
    /\ pc' = [pc EXCEPT ![p] = "create_catch"]
    /\ call' = [call EXCEPT ![p] = [@ EXCEPT !.issued = Append(@, req),
                                             !.err = req.req]]

\* CreateCarCall without the check of the name.
CreateCarCallUnchecked(p, d) ==
    /\ pc[p] = "idle"
    /\ calls < MaxCalls
    /\ calls' = calls + 1
    /\ call' = [call EXCEPT ![p] = FreshCall("createCar", d, 0)]
    /\ pc' = [pc EXCEPT ![p] = "create_root"]
    /\ UNCHANGED store

CreateCarCall(p, d) ==
    /\ pc[p] = "idle"
    /\ calls < MaxCalls
    /\ calls' = calls + 1
    /\ IF d.name = <<>>
       THEN /\ call' = [call EXCEPT ![p] =
                          [FreshCall("createCar", d, 0) EXCEPT
                              !.result = Raised("validation", "name")]]
            /\ pc' = pc
       ELSE /\ call' = [call EXCEPT ![p] = FreshCall("createCar", d, 0)]
            /\ pc' = [pc EXCEPT ![p] = "create_root"]
    /\ UNCHANGED store

CreateRoot(p) ==
    /\ pc[p] = "create_root"
    /\ \/ /\ nextCarId <= MaxCars
          /\ cars' = cars @@ (nextCarId :> BaseCarPayload(call[p].input, nextCarId))
          /\ nextCarId' = nextCarId + 1
          /\ LET c == [call[p] EXCEPT !.carId = nextCarId]
                 to == CreateAfter(c.input, 0)
             IN  /\ pc' = [pc EXCEPT ![p] = to]
                 /\ call' = [call EXCEPT ![p] =
                               [c EXCEPT !.issued = Append(@, Req("cars.insert", {}, TRUE)),
                                         !.result = IF to = "idle"
                                                    THEN Returned(<<nextCarId>>) ELSE @]]
       \/ /\ pc' = [pc EXCEPT ![p] = "idle"]
          /\ call' = [call EXCEPT ![p] =
                        [@ EXCEPT !.issued = Append(@, Req("cars.insert", {}, FALSE)),
                                  !.result = Raised("raw", "cars.insert")]]
          /\ UNCHANGED <<cars, nextCarId>>
    /\ UNCHANGED <<related, bucket, nextImageId, calls, homepage_settings>>

\* The unique constraint on car_id, which the pricing upsert of updateCar
\* names as its conflict target, lets an insert of a pricing row of car
\* carId pass: no stored pricing row carries carId.
PricingInsertAccepts(tbl, carId) == \A k \in 1..Len(tbl) : tbl[k].car_id # carId

CreatePricing(p) ==
    /\ pc[p] = "create_pricing"
    /\ \/ /\ PricingInsertAccepts(car_pricing, call[p].carId)
          /\ car_pricing' = Append(car_pricing,
                 [car_id |-> call[p].carId, base_price |-> call[p].input.pricing.base_price])
          /\ CreateGoOn(p, 1, Req("car_pricing.insert", {}, TRUE))
       \/ /\ CreateThrow(p, Req("car_pricing.insert", {}, FALSE))
          /\ UNCHANGED car_pricing
    /\ UNCHANGED <<cars, car_images, car_features, car_specifications, bucket,
                   nextCarId, nextImageId, calls, homepage_settings>>

\* The unique constraint on (car_id, path), which the upsert of updateCar
\* names as its conflict target, lets an insert of the image rows imgs of
\* car carId pass: no two of the rows carry the same path and no stored row
\* of the car carries one of their paths (a NULL path conflicts with nothing).
InsertAccepts(tbl, imgs, carId) ==
    /\ \A i, j \in 1..Len(imgs) :
           (i # j /\ imgs[i].path # NULL) => imgs[i].path # imgs[j].path
    /\ \A i \in 1..Len(imgs), k \in 1..Len(tbl) :
           (tbl[k].car_id = carId /\ imgs[i].path # NULL) => tbl[k].path # imgs[i].path

CreateImages(p) ==
    /\ pc[p] = "create_images"
    /\ \/ /\ InsertAccepts(car_images, call[p].input.images, call[p].carId)
          /\ car_images' = car_images \o
                 ImageRows(call[p].input.images, call[p].carId, nextImageId)
          /\ nextImageId' = nextImageId + Len(call[p].input.images)
          /\ CreateGoOn(p, 2, Req("car_images.insert", {}, TRUE))
       \/ /\ CreateThrow(p, Req("car_images.insert", {}, FALSE))
          /\ UNCHANGED <<car_images, nextImageId>>
    /\ UNCHANGED <<cars, car_pricing, car_features, car_specifications, bucket,
                   nextCarId, calls, homepage_settings>>

CreateFeatures(p) ==
    /\ pc[p] = "create_features"
    /\ \/ /\ car_features' = car_features \o ValueRows(call[p].input.features, call[p].carId)
          /\ CreateGoOn(p, 3, Req("car_features.insert", {}, TRUE))
       \/ /\ CreateThrow(p, Req("car_features.insert", {}, FALSE))
          /\ UNCHANGED car_features
    /\ UNCHANGED <<cars, car_pricing, car_images, car_specifications, bucket,
                   nextCarId, nextImageId, calls, homepage_settings>>

CreateSpecifications(p) ==
    /\ pc[p] = "create_specifications"
    /\ \/ /\ car_specifications' =
                 car_specifications \o ValueRows(call[p].input.specifications, call[p].carId)
          /\ CreateGoOn(p, 4, Req("car_specifications.insert", {}, TRUE))
       \/ /\ CreateThrow(p, Req("car_specifications.insert", {}, FALSE))
          /\ UNCHANGED car_specifications
    /\ UNCHANGED <<cars, car_pricing, car_images, car_features, bucket,
                   nextCarId, nextImageId, calls, homepage_settings>>

\* The table cars without the row of id.
WithoutCar(id) == [i \in DOMAIN cars \ {id} |-> cars[i]]

\* CreateCatch without the compensating delete.
CreateCatchNoCleanup(p) ==
    /\ pc[p] = "create_catch"
    /\ pc' = [pc EXCEPT ![p] = "idle"]
    /\ call' = [call EXCEPT ![p] =
          [@ EXCEPT !.result = Raised("handleSupabaseError", call[p].err)]]
    /\ UNCHANGED <<store, calls>>

\* catch of createCar: delete the root row (the result of the delete is not
\* looked at), then throw new Error(handleSupabaseError(error)).
CreateCatch(p) ==
    /\ pc[p] = "create_catch"
    /\ \E ok \in BOOLEAN :
          /\ cars' = IF ok THEN WithoutCar(call[p].carId) ELSE cars
          /\ call' = [call EXCEPT ![p] =
                [@ EXCEPT !.issued = Append(@, Req("cars.delete", {}, ok)),
                          !.result = Raised("handleSupabaseError", call[p].err)]]
    /\ pc' = [pc EXCEPT ![p] = "idle"]
    /\ UNCHANGED <<related, bucket, nextCarId, nextImageId, calls, homepage_settings>>

createCar(p) ==
    \/ CreateRoot(p)
    \/ CreatePricing(p)
    \/ CreateImages(p)
    \/ CreateFeatures(p)
    \/ CreateSpecifications(p)
    \/ CreateCatch(p)

\* ---------------------------------------------------------------- deleteCar
\* How the catch of an operation raises a store error object it caught:
\* new Error(handleSupabaseError(error)) when the object is an Error
\* instance, else the operation's fixed "unexpected error" message.  Whether
\* the store client's error objects are Error instances depends on the
\* client library the build links.
StoreErrorVia == {"handleSupabaseError", "generic"}

RelatedTables == {"car_pricing", "car_features", "car_specifications", "car_images"}

\* images.map(img => img.path).filter(Boolean)
PathsOf(rows) == {rows[i].path : i \in 1..Len(rows)} \ {NULL, ""}
IdsOf(rows) == {rows[i].id : i \in 1..Len(rows)}

DeleteCarCall(p, id) ==
    /\ pc[p] = "idle"
    /\ calls < MaxCalls
    /\ calls' = calls + 1
    /\ call' = [call EXCEPT ![p] = FreshCall("deleteCar", EmptyInput, id)]
    /\ pc' = [pc EXCEPT ![p] = "delete_fetch"]
    /\ UNCHANGED store

\* 1. select id, path from car_images; then the four related deletes are
\*    sent together (Promise.all).
DeleteFetch(p) ==
    /\ pc[p] = "delete_fetch"
    /\ \/ /\ pc' = [pc EXCEPT ![p] = "delete_related"]
          /\ call' = [call EXCEPT ![p] =
                [@ EXCEPT !.existing = SelectRows(car_images, "car_id", {call[p].carId}),
                          !.pending = RelatedTables,
                          !.issued = Append(@, Req("car_images.select", {}, TRUE))]]
       \/ \E via \in StoreErrorVia :
          /\ pc' = [pc EXCEPT ![p] = "idle"]
          /\ call' = [call EXCEPT ![p] =
                [@ EXCEPT !.issued = Append(@, Req("car_images.select", {}, FALSE)),
                          !.result = Raised(via, "car_images.select")]]
    /\ UNCHANGED <<store, calls>>

\* What Promise.all(...) of the related deletes does once all four have
\* settled, none of them having rejected: the resolved {data, error} values
\* are dropped and deleteCar goes on to the root delete.
AfterRelatedDeletes(c) == "delete_root"

\* The four deletes as the log shows them once Promise.all has settled, in
\* the order of the array; failed holds the tables whose delete reported an
\* error.
RelatedDeletes(failed) ==
    <<Req("car_pricing.delete", {}, "car_pricing" \notin failed),
      Req("car_features.delete", {}, "car_features" \notin failed),
      Req("car_specifications.delete", {}, "car_specifications" \notin failed),
      Req("car_images.delete", {}, "car_images" \notin failed)>>

\* 2. One of the four concurrent deletes reaches the store.
DeleteRelated(p, t) ==
    /\ pc[p] = "delete_related"
    /\ t \in call[p].pending
    /\ \E ok \in BOOLEAN :
        LET id == call[p].carId
            failed == IF ok THEN call[p].failed ELSE call[p].failed \cup {t}
            last == call[p].pending = {t}
            c == [call[p] EXCEPT !.pending = @ \ {t},
                                 !.failed = IF last THEN {} ELSE failed,
                                 !.issued = IF last THEN @ \o RelatedDeletes(failed) ELSE @]
        IN  /\ car_pricing' = IF ok /\ t = "car_pricing"
                              THEN DeleteRows(car_pricing, "car_id", {id}) ELSE car_pricing
            /\ car_features' = IF ok /\ t = "car_features"
                               THEN DeleteRows(car_features, "car_id", {id}) ELSE car_features
            /\ car_specifications' = IF ok /\ t = "car_specifications"
                               THEN DeleteRows(car_specifications, "car_id", {id})
                               ELSE car_specifications
            /\ car_images' = IF ok /\ t = "car_images"
                             THEN DeleteRows(car_images, "car_id", {id}) ELSE car_images
            /\ call' = [call EXCEPT ![p] = c]
            /\ pc' = [pc EXCEPT ![p] = IF c.pending = {} THEN AfterRelatedDeletes(c)
                                       ELSE "delete_related"]
    /\ UNCHANGED <<cars, bucket, nextCarId, nextImageId, calls, homepage_settings>>

\* DeleteRoot that raises when the delete removed no row.
DeleteRootMissingRaises(p) ==
    /\ pc[p] = "delete_root"
    /\ pc' = [pc EXCEPT ![p] = "idle"]
    /\ cars' = WithoutCar(call[p].carId)
    /\ call' = [call EXCEPT ![p] =
          [@ EXCEPT !.issued = Append(@, Req("cars.delete", {}, TRUE)),
                    !.result = IF call[p].carId \in DOMAIN cars
                               THEN Returned(<<>>)
                               ELSE Raised("handleSupabaseError", "cars.delete")]]
    /\ UNCHANGED <<related, bucket, nextCarId, nextImageId, calls, homepage_settings>>

\* 3. delete the root row; 4. go on to the storage removal when there are
\*    paths to remove, else return true.
DeleteRoot(p) ==
    /\ pc[p] = "delete_root"
    /\ \/ /\ cars' = WithoutCar(call[p].carId)
          /\ LET to == IF PathsOf(call[p].existing) # {} THEN "delete_storage" ELSE "idle"
             IN  /\ pc' = [pc EXCEPT ![p] = to]
                 /\ call' = [call EXCEPT ![p] =
                       [@ EXCEPT !.issued = Append(@, Req("cars.delete", {}, TRUE)),
                                 !.result = IF to = "idle" THEN Returned(<<>>) ELSE @]]
       \/ \E via \in StoreErrorVia :
          /\ pc' = [pc EXCEPT ![p] = "idle"]
          /\ call' = [call EXCEPT ![p] =
                [@ EXCEPT !.issued = Append(@, Req("cars.delete", {}, FALSE)),
                          !.result = Raised(via, "cars.delete")]]
          /\ cars' = cars
    /\ UNCHANGED <<related, bucket, nextCarId, nextImageId, calls, homepage_settings>>

\* DeleteStorage that throws the error of the storage removal.
DeleteStorageChecked(p) ==
    /\ pc[p] = "delete_storage"
    /\ \E ok \in BOOLEAN :
          /\ bucket' = IF ok THEN bucket \ PathsOf(call[p].existing) ELSE bucket
          /\ call' = [call EXCEPT ![p] =
                [@ EXCEPT !.issued = Append(@, Req("storage.remove",
                                                   PathsOf(call[p].existing), ok)),
                          !.result = IF ok THEN Returned(<<>>)
                                     ELSE Raised("handleSupabaseError", "storage.remove")]]
    /\ pc' = [pc EXCEPT ![p] = "idle"]
    /\ UNCHANGED <<cars, related, nextCarId, nextImageId, calls, homepage_settings>>

\* 4. storage.remove(imagePathsToDelete); an error is logged only.
DeleteStorage(p) ==
    /\ pc[p] = "delete_storage"
    /\ \E ok \in BOOLEAN :
          /\ bucket' = IF ok THEN bucket \ PathsOf(call[p].existing) ELSE bucket
          /\ call' = [call EXCEPT ![p] =
                [@ EXCEPT !.issued = Append(@, Req("storage.remove",
                                                   PathsOf(call[p].existing), ok)),
                          !.result = Returned(<<>>)]]
    /\ pc' = [pc EXCEPT ![p] = "idle"]
    /\ UNCHANGED <<cars, related, nextCarId, nextImageId, calls, homepage_settings>>

deleteCar(p) ==
    \/ DeleteFetch(p)
    \/ \E t \in RelatedTables : DeleteRelated(p, t)
    \/ DeleteRoot(p)
    \/ DeleteStorage(p)

\* ---------------------------------------------------------------- updateCar
UNDEF == "undefined"
NullableFields == {"description", "short_description", "available", "featured", "hidden"}

\* NullToUndefined that passes null on to the patch.
NullKept(v) == v

\* updates.f === null ? undefined : updates.f
NullToUndefined(v) == IF v = NULL THEN UNDEF ELSE v

\* PayloadKeys without the regenerated slug.
PayloadKeysNoSlug(u) ==
    (IF Has(u, "name") THEN {"name"} ELSE {})
    \cup (IF Has(u, "category") THEN {"category"} ELSE {})
    \cup {f \in {"description", "short_description", "available", "featured", "hidden"} :
             Has(u, f)}

\* Object.keys(baseCarUpdatePayload)
PayloadKeys(u) ==
    (IF Has(u, "name") THEN {"name", "slug"} ELSE {})
    \cup (IF Has(u, "category") THEN {"category"} ELSE {})
    \cup {f \in NullableFields : Has(u, f)}

\* baseCarUpdatePayload[f], for f in PayloadKeys(u)
PayloadValue(u, f) ==
    CASE f = "name" -> u.name
      [] f = "slug" -> generateSlug(u.name)
      [] f = "category" -> u.category
      [] OTHER -> NullToUndefined(u[f])

\* The columns the request body of cars.update carries: JSON serialisation
\* drops the keys whose value is undefined.
SentKeys(u) ==
    {f \in PayloadKeys(u) : f \in {"name", "slug", "category"} \/ PayloadValue(u, f) # UNDEF}

\* The row after update cars set <body> where id = ...
Patched(row, u) ==
    [f \in DOMAIN row |-> IF f \in SentKeys(u) THEN PayloadValue(u, f) ELSE row[f]]

IncomingPaths(u) == {u.images[i].path : i \in 1..Len(u.images)}

RECURSIVE ImagesToDelete(_, _)
\* existingImages.filter(img => img.path && !incomingImagePaths.has(img.path))
ImagesToDelete(existing, incoming) ==
    IF existing = <<>> THEN <<>>
    ELSE IF Truthy(Head(existing).path) /\ Head(existing).path \notin incoming
         THEN <<Head(existing)>> \o ImagesToDelete(Tail(existing), incoming)
         ELSE ImagesToDelete(Tail(existing), incoming)

ToDelete(c) == ImagesToDelete(c.existing, IncomingPaths(c.input))

\* UpsertPricing as a plain insert.
UpsertPricingAsInsert(tbl, row) == Append(tbl, row)

\* upsert of one pricing row, on conflict (car_id)
UpsertPricing(tbl, row) ==
    IF \E i \in 1..Len(tbl) : tbl[i].car_id = row.car_id
    THEN [i \in 1..Len(tbl) |-> IF tbl[i].car_id = row.car_id THEN row ELSE tbl[i]]
    ELSE Append(tbl, row)

\* UpsertImages as a plain insert of every incoming row.
UpsertImagesAsInsert(tbl, imgs, carId, nextId) ==
    [tbl |-> tbl \o ImageRows(imgs, carId, nextId), next |-> nextId + Len(imgs)]

RECURSIVE UpsertImages(_, _, _, _)
\* upsert of the image rows imgs of car carId, on conflict (car_id, path): a
\* row with the same car and path is updated in place and keeps its id, any
\* other row is inserted (a NULL path conflicts with nothing).  Yields the
\* table and the next free image id.
UpsertImages(tbl, imgs, carId, nextId) ==
    IF imgs = <<>> THEN [tbl |-> tbl, next |-> nextId]
    ELSE LET img == Head(imgs)
             hit == {i \in 1..Len(tbl) : /\ tbl[i].car_id = carId
                                         /\ img.path # NULL
                                         /\ tbl[i].path = img.path}
         IN  IF hit # {}
             THEN UpsertImages(
                      [i \in 1..Len(tbl) |->
                          IF i \in hit THEN [tbl[i] EXCEPT !.sort_order = img.sort_order]
                          ELSE tbl[i]],
                      Tail(imgs), carId, nextId)
             ELSE UpsertImages(
                      Append(tbl, [id |-> nextId, car_id |-> carId, path |-> img.path,
                                   sort_order |-> img.sort_order]),
                      Tail(imgs), carId, nextId + 1)

\* One upsert statement cannot touch a row twice: it fails when two incoming
\* rows carry the same non-NULL path.
UpsertAccepts(imgs) ==
    \A i, j \in 1..Len(imgs) :
        (i # j /\ imgs[i].path # NULL) => imgs[i].path # imgs[j].path

\* The awaits of updateCar, in order, and whether each is reached.
UpdatePc == <<"update_root", "update_pricing", "update_img_fetch", "update_img_storage",
              "update_img_delete", "update_img_upsert", "update_feat_delete",
              "update_feat_insert", "update_spec_delete", "update_spec_insert",
              "update_reread">>
UpdateNeeded(c, k) ==
    LET u == c.input
    IN  CASE k = 1 -> PayloadKeys(u) # {}
          [] k = 2 -> Has(u, "pricing")
          [] k = 3 -> Has(u, "images")
          [] k = 4 -> Has(u, "images") /\ PathsOf(ToDelete(c)) # {}
          [] k = 5 -> Has(u, "images") /\ ToDelete(c) # <<>>
          [] k = 6 -> Has(u, "images") /\ Len(u.images) > 0
          [] k = 7 -> Has(u, "features")
          [] k = 8 -> Has(u, "features") /\ Len(u.features) > 0
          [] k = 9 -> Has(u, "specifications")
          [] k = 10 -> Has(u, "specifications") /\ Len(u.specifications) > 0
          [] k = 11 -> TRUE

UpdateAfter(c, k) ==
    LET rest == {i \in (k + 1)..11 : UpdateNeeded(c, i)}
    IN  UpdatePc[CHOOSE i \in rest : \A j \in rest : i <= j]

\* Step k of updateCar succeeded, leaving the locals c.
UpdateGoOn(p, k, c, req) ==
    /\ pc' = [pc EXCEPT ![p] = UpdateAfter(c, k)]
    /\ call' = [call EXCEPT ![p] = [c EXCEPT !.issued = Append(@, req)]]

\* UpdateThrow that logs the error and returns the car.
UpdateThrowSwallowed(p, req) ==
    /\ pc' = [pc EXCEPT ![p] = "idle"]
    /\ call' = [call EXCEPT ![p] =
          [@ EXCEPT !.issued = Append(@, req),
                    !.result = Returned(<<call[p].carId>>)]]

\* A step inside the try failed: throw new Error("...: " + error.message),
\* which the catch raises as new Error(handleSupabaseError(error)).
UpdateThrow(p, req) ==
    /\ pc' = [pc EXCEPT ![p] = "idle"]
    /\ call' = [call EXCEPT ![p] =
          [@ EXCEPT !.issued = Append(@, req),
                    !.result = Raised("handleSupabaseError", req.req)]]

UpdateCarCall(p, id, u) ==
    /\ pc[p] = "idle"
    /\ calls < MaxCalls
    /\ calls' = calls + 1
    /\ LET c == FreshCall("updateCar", u, id)
       IN  /\ call' = [call EXCEPT ![p] = c]
           /\ pc' = [pc EXCEPT ![p] = UpdateAfter(c, 0)]
    /\ UNCHANGED store

\* 1. update cars set <patch> where id = carId; an error is thrown as it is.
UpdateRoot(p) ==
    /\ pc[p] = "update_root"
    /\ LET c == call[p]
           id == c.carId
       IN  \/ /\ cars' = [i \in DOMAIN cars |->
                            IF i = id THEN Patched(cars[i], c.input) ELSE cars[i]]
              /\ UpdateGoOn(p, 1, c, Req("cars.update", {}, TRUE))
           \/ /\ cars' = cars
              /\ pc' = [pc EXCEPT ![p] = "idle"]
              /\ call' = [call EXCEPT ![p] =
                    [@ EXCEPT !.issued = Append(@, Req("cars.update", {}, FALSE)),
                              !.result = Raised("raw", "cars.update")]]
    /\ UNCHANGED <<related, bucket, nextCarId, nextImageId, calls, homepage_settings>>

\* 2. upsert car_pricing on conflict (car_id)
UpdatePricing(p) ==
    /\ pc[p] = "update_pricing"
    /\ LET c == call[p]
       IN  \/ /\ car_pricing' = UpsertPricing(car_pricing,
                     [car_id |-> c.carId, base_price |-> c.input.pricing.base_price])
              /\ UpdateGoOn(p, 2, c, Req("car_pricing.upsert", {}, TRUE))
           \/ /\ car_pricing' = car_pricing
              /\ UpdateThrow(p, Req("car_pricing.upsert", {}, FALSE))
    /\ UNCHANGED <<cars, car_images, car_features, car_specifications, bucket,
                   nextCarId, nextImageId, calls, homepage_settings>>

\* 3. select id, path from car_images where car_id = carId
UpdateImgFetch(p) ==
    /\ pc[p] = "update_img_fetch"
    /\ \/ LET c == [call[p] EXCEPT
                       !.existing = SelectRows(car_images, "car_id", {call[p].carId})]
          IN  UpdateGoOn(p, 3, c, Req("car_images.select", {}, TRUE))
       \/ UpdateThrow(p, Req("car_images.select", {}, FALSE))
    /\ UNCHANGED <<store, calls>>

\* UpdateImgStorage that throws the error of the storage removal.
UpdateImgStorageChecked(p) ==
    /\ pc[p] = "update_img_storage"
    /\ LET c == call[p]
           gone == PathsOf(ToDelete(c))
       IN  \/ /\ bucket' = bucket \ gone
              /\ UpdateGoOn(p, 4, c, Req("storage.remove", gone, TRUE))
           \/ /\ bucket' = bucket
              /\ UpdateThrow(p, Req("storage.remove", gone, FALSE))
    /\ UNCHANGED <<cars, related, nextCarId, nextImageId, calls, homepage_settings>>

\* storage.remove(pathsToDelete); an error is logged and the update goes on.
UpdateImgStorage(p) ==
    /\ pc[p] = "update_img_storage"
    /\ LET c == call[p]
           gone == PathsOf(ToDelete(c))
       IN  \E ok \in BOOLEAN :
              /\ bucket' = IF ok THEN bucket \ gone ELSE bucket
              /\ UpdateGoOn(p, 4, c, Req("storage.remove", gone, ok))
    /\ UNCHANGED <<cars, related, nextCarId, nextImageId, calls, homepage_settings>>

\* delete from car_images where id in idsToDelete
UpdateImgDelete(p) ==
    /\ pc[p] = "update_img_delete"
    /\ LET c == call[p]
       IN  \/ /\ car_images' = DeleteRows(car_images, "id", IdsOf(ToDelete(c)))
              /\ UpdateGoOn(p, 5, c, Req("car_images.delete", {}, TRUE))
           \/ /\ car_images' = car_images
              /\ UpdateThrow(p, Req("car_images.delete", {}, FALSE))
    /\ UNCHANGED <<cars, car_pricing, car_features, car_specifications, bucket,
                   nextCarId, nextImageId, calls, homepage_settings>>

\* upsert car_images on conflict (car_id, path)
UpdateImgUpsert(p) ==
    /\ pc[p] = "update_img_upsert"
    /\ LET c == call[p]
           up == UpsertImages(car_images, c.input.images, c.carId, nextImageId)
       IN  \/ /\ UpsertAccepts(c.input.images)
              /\ car_images' = up.tbl
              /\ nextImageId' = up.next
              /\ UpdateGoOn(p, 6, c, Req("car_images.upsert", {}, TRUE))
           \/ /\ UNCHANGED <<car_images, nextImageId>>
              /\ UpdateThrow(p, Req("car_images.upsert", {}, FALSE))
    /\ UNCHANGED <<cars, car_pricing, car_features, car_specifications, bucket,
                   nextCarId, calls, homepage_settings>>

\* UpdateFeatDelete that reports success and deletes nothing.
UpdateFeatDeleteKeepsRows(p) ==
    /\ pc[p] = "update_feat_delete"
    /\ UpdateGoOn(p, 7, call[p], Req("car_features.delete", {}, TRUE))
    /\ UNCHANGED <<store, calls>>

\* 4. delete from car_features where car_id = carId
UpdateFeatDelete(p) ==
    /\ pc[p] = "update_feat_delete"
    /\ LET c == call[p]
       IN  \/ /\ car_features' = DeleteRows(car_features, "car_id", {c.carId})
              /\ UpdateGoOn(p, 7, c, Req("car_features.delete", {}, TRUE))
           \/ /\ car_features' = car_features
              /\ UpdateThrow(p, Req("car_features.delete", {}, FALSE))
    /\ UNCHANGED <<cars, car_pricing, car_images, car_specifications, bucket,
                   nextCarId, nextImageId, calls, homepage_settings>>

\* insert into car_features
UpdateFeatInsert(p) ==
    /\ pc[p] = "update_feat_insert"
    /\ LET c == call[p]
       IN  \/ /\ car_features' = car_features \o ValueRows(c.input.features, c.carId)
              /\ UpdateGoOn(p, 8, c, Req("car_features.insert", {}, TRUE))
           \/ /\ car_features' = car_features
              /\ UpdateThrow(p, Req("car_features.insert", {}, FALSE))
    /\ UNCHANGED <<cars, car_pricing, car_images, car_specifications, bucket,
                   nextCarId, nextImageId, calls, homepage_settings>>

\* UpdateSpecDelete without the filter on car_id.
UpdateSpecDeleteEveryCar(p) ==
    /\ pc[p] = "update_spec_delete"
    /\ LET c == call[p]
       IN  \/ /\ car_specifications' = <<>>
              /\ UpdateGoOn(p, 9, c, Req("car_specifications.delete", {}, TRUE))
           \/ /\ car_specifications' = car_specifications
              /\ UpdateThrow(p, Req("car_specifications.delete", {}, FALSE))
    /\ UNCHANGED <<cars, car_pricing, car_images, car_features, bucket,
                   nextCarId, nextImageId, calls, homepage_settings>>

\* 5. delete from car_specifications where car_id = carId
UpdateSpecDelete(p) ==
    /\ pc[p] = "update_spec_delete"
    /\ LET c == call[p]
       IN  \/ /\ car_specifications' = DeleteRows(car_specifications, "car_id", {c.carId})
              /\ UpdateGoOn(p, 9, c, Req("car_specifications.delete", {}, TRUE))
           \/ /\ car_specifications' = car_specifications
              /\ UpdateThrow(p, Req("car_specifications.delete", {}, FALSE))
    /\ UNCHANGED <<cars, car_pricing, car_images, car_features, bucket,
                   nextCarId, nextImageId, calls, homepage_settings>>

\* insert into car_specifications
UpdateSpecInsert(p) ==
    /\ pc[p] = "update_spec_insert"
    /\ LET c == call[p]
       IN  \/ /\ car_specifications' =
                     car_specifications \o ValueRows(c.input.specifications, c.carId)
              /\ UpdateGoOn(p, 10, c, Req("car_specifications.insert", {}, TRUE))
           \/ /\ car_specifications' = car_specifications
              /\ UpdateThrow(p, Req("car_specifications.insert", {}, FALSE))
    /\ UNCHANGED <<cars, car_pricing, car_images, car_features, bucket,
                   nextCarId, nextImageId, calls, homepage_settings>>

\* getCarById(carId) after the try: the car, or "Failed to fetch updated car"
\* when it is gone; a store error is raised by the catch of getCarById.
UpdateReread(p) ==
    /\ pc[p] = "update_reread"
    /\ pc' = [pc EXCEPT ![p] = "idle"]
    /\ LET c == call[p]
       IN  \/ call' = [call EXCEPT ![p] =
                  [c EXCEPT !.issued = Append(@, Req("cars.select", {}, TRUE)),
                            !.result = IF c.carId \in DOMAIN cars
                                       THEN Returned(<<c.carId>>)
                                       ELSE Raised("notfound", "none")]]
           \/ \E via \in StoreErrorVia :
              call' = [call EXCEPT ![p] =
                  [c EXCEPT !.issued = Append(@, Req("cars.select", {}, FALSE)),
                            !.result = Raised(via, "cars.select")]]
    /\ UNCHANGED <<store, calls>>

updateCar(p) ==
    \/ UpdateRoot(p)
    \/ UpdatePricing(p)
    \/ UpdateImgFetch(p)
    \/ UpdateImgStorage(p)
    \/ UpdateImgDelete(p)
    \/ UpdateImgUpsert(p)
    \/ UpdateFeatDelete(p)
    \/ UpdateFeatInsert(p)
    \/ UpdateSpecDelete(p)
    \/ UpdateSpecInsert(p)
    \/ UpdateReread(p)

\* --------------------------------------------------- getVisibleCarsForFleet
\* Rank of a boolean column under order(..., {ascending: false}): true before
\* false, NULL before both.
DescRank(v) == CASE v = NULL -> 2 [] v = T -> 1 [] OTHER -> 0

\* FleetBefore that orders by created_at alone.
FleetBeforeByCreation(i, j) == cars[i].created_at > cars[j].created_at

\* Row i comes before row j under
\* order("featured", desc).order("created_at", desc).
FleetBefore(i, j) ==
    \/ DescRank(cars[i].featured) > DescRank(cars[j].featured)
    \/ /\ DescRank(cars[i].featured) = DescRank(cars[j].featured)
       /\ cars[i].created_at > cars[j].created_at

RECURSIVE Ordered(_)
\* The car ids of set ids in the order of FleetBefore.
Ordered(ids) ==
    IF ids = {} THEN <<>>
    ELSE LET first == CHOOSE i \in ids : \A j \in ids \ {i} : FleetBefore(i, j)
         IN  <<first>> \o Ordered(ids \ {first})

\* .eq("available", true).eq("hidden", false)
Visible(i) == cars[i].available = T /\ cars[i].hidden = F

\* The rows the fleet query answers with, as car ids.
FleetAnswer == Ordered({i \in DOMAIN cars : Visible(i)})

\* data.map(car => ({id, ..., category, isFeatured: car.featured, ...})): one
\* projection per row, in the order of the answer.
Projection(i) ==
    [id |-> i, category |-> cars[i].category, isFeatured |-> cars[i].featured]
Projected(ids) == [k \in 1..Len(ids) |-> Projection(ids[k])]

GetVisibleCall(p) ==
    /\ pc[p] = "idle"
    /\ call' = [call EXCEPT ![p] = FreshCall("getVisibleCarsForFleet", EmptyInput, 0)]
    /\ pc' = [pc EXCEPT ![p] = "visible_query"]
    /\ UNCHANGED <<store, calls>>

GetVisibleQuery(p) ==
    /\ pc[p] = "visible_query"
    /\ pc' = [pc EXCEPT ![p] = "idle"]
    /\ LET c == call[p]
       IN  \/ call' = [call EXCEPT ![p] =
                  [c EXCEPT !.issued = Append(@, Req("cars.select", {}, TRUE)),
                            !.result = Returned(Projected(FleetAnswer))]]
           \/ \E via \in StoreErrorVia :
              call' = [call EXCEPT ![p] =
                  [c EXCEPT !.issued = Append(@, Req("cars.select", {}, FALSE)),
                            !.result = Raised(via, "cars.select")]]
    /\ UNCHANGED <<store, calls>>

\* ----------------------------------------------------------- getRelatedCars
DefaultLimit == 3

\* The limit parameter: <<>> when the caller leaves it out.
EffectiveLimit(l) == IF l = <<>> THEN DefaultLimit ELSE l[1]

\* RelatedMatches without .neq("id", carId).
RelatedMatchesWithSelf(category, carId) ==
    {i \in DOMAIN cars : /\ cars[i].category = category
                         /\ cars[i].available = T
                         /\ cars[i].hidden = F}

\* .eq("category", category).neq("id", carId).eq("available", true)
\* .eq("hidden", false)
RelatedMatches(category, carId) ==
    {i \in DOMAIN cars : /\ cars[i].category = category
                         /\ i # carId
                         /\ Visible(i)}

\* .limit(n) on a query without an order: any n of the matching rows, in any
\* order (all of them when there are fewer).
Limited(ids, n) ==
    LET m == IF Cardinality(ids) < n THEN Cardinality(ids) ELSE n
    IN  {s \in [1..m -> ids] : \A i, j \in 1..m : i # j => s[i] # s[j]}

GetRelatedCall(p, id, l) ==
    /\ pc[p] = "idle"
    /\ call' = [call EXCEPT ![p] =
          [FreshCall("getRelatedCars", EmptyInput, id) EXCEPT !.limit = l]]
    /\ pc' = [pc EXCEPT ![p] = "related_category"]
    /\ UNCHANGED <<store, calls>>

\* currentCar?.category is truthy: the car exists and has a category.
HasCategory(id) == id \in DOMAIN cars /\ Truthy(cars[id].category)

\* 1. select category from cars where id = carId (maybeSingle)
GetRelatedCategory(p) ==
    /\ pc[p] = "related_category"
    /\ LET c == call[p]
           sent == [c EXCEPT !.issued = Append(@, Req("cars.select", {}, TRUE))]
       IN  \/ /\ HasCategory(c.carId)
              /\ pc' = [pc EXCEPT ![p] = "related_query"]
              /\ call' = [call EXCEPT ![p] =
                    [sent EXCEPT !.category = cars[c.carId].category]]
           \/ /\ ~HasCategory(c.carId)
              /\ pc' = [pc EXCEPT ![p] = "idle"]
              /\ call' = [call EXCEPT ![p] = [sent EXCEPT !.result = Returned(<<>>)]]
           \/ \E via \in StoreErrorVia :
              /\ pc' = [pc EXCEPT ![p] = "idle"]
              /\ call' = [call EXCEPT ![p] =
                    [c EXCEPT !.issued = Append(@, Req("cars.select", {}, FALSE)),
                              !.result = Raised(via, "cars.select")]]
    /\ UNCHANGED <<store, calls>>

\* 2. the related cars of the category, limited
GetRelatedQuery(p) ==
    /\ pc[p] = "related_query"
    /\ pc' = [pc EXCEPT ![p] = "idle"]
    /\ LET c == call[p]
       IN  \/ \E r \in Limited(RelatedMatches(c.category, c.carId), EffectiveLimit(c.limit)) :
              call' = [call EXCEPT ![p] =
                  [c EXCEPT !.issued = Append(@, Req("cars.select", {}, TRUE)),
                            !.result = Returned(Projected(r))]]
           \/ \E via \in StoreErrorVia :
              call' = [call EXCEPT ![p] =
                  [c EXCEPT !.issued = Append(@, Req("cars.select", {}, FALSE)),
                            !.result = Raised(via, "cars.select")]]
    /\ UNCHANGED <<store, calls>>

\* ------------------------------------------------------------ getCategories
\* The UTF-16 code units of the category names in use.
CodeUnits(str) ==
    CASE str = "suv" -> <<115, 117, 118>>
      [] str = "van" -> <<118, 97, 110>>
      [] OTHER -> <<>>

RECURSIVE CodeUnitsLess(_, _)
\* a < b for strings given by their code units: the order of the default
\* Array.prototype.sort.
CodeUnitsLess(a, b) ==
    IF b = <<>> THEN FALSE
    ELSE IF a = <<>> THEN TRUE
    ELSE IF Head(a) # Head(b) THEN Head(a) < Head(b)
    ELSE CodeUnitsLess(Tail(a), Tail(b))

RECURSIVE AscendingIds(_)
\* The ids of a set, ascending: the rows in the order they were inserted.
AscendingIds(ids) ==
    IF ids = {} THEN <<>>
    ELSE LET first == CHOOSE i \in ids : \A j \in ids : i <= j
         IN  <<first>> \o AscendingIds(ids \ {first})

RECURSIVE FilterBoolean(_)
\* categories.filter(Boolean)
FilterBoolean(strs) ==
    IF strs = <<>> THEN <<>>
    ELSE IF Truthy(Head(strs)) THEN <<Head(strs)>> \o FilterBoolean(Tail(strs))
    ELSE FilterBoolean(Tail(strs))

\* UniqueValues that keeps every occurrence.
UniqueValuesKeepAll(strs) == strs

RECURSIVE UniqueValues(_)
\* Array.from(new Set(strs)): the first occurrence of every value, in order.
UniqueValues(strs) ==
    IF strs = <<>> THEN <<>>
    ELSE LET init == SubSeq(strs, 1, Len(strs) - 1)
             last == strs[Len(strs)]
         IN  IF \E k \in 1..Len(init) : init[k] = last
             THEN UniqueValues(init)
             ELSE Append(UniqueValues(init), last)

RECURSIVE InsertString(_, _)
InsertString(sorted, str) ==
    IF sorted = <<>> THEN <<str>>
    ELSE IF CodeUnitsLess(CodeUnits(str), CodeUnits(Head(sorted)))
         THEN <<str>> \o sorted
         ELSE <<Head(sorted)>> \o InsertString(Tail(sorted), str)

RECURSIVE SortStrings(_)
\* strs.sort(): ascending by code units, stable.
SortStrings(strs) ==
    IF strs = <<>> THEN <<>>
    ELSE InsertString(SortStrings(SubSeq(strs, 1, Len(strs) - 1)), strs[Len(strs)])

\* data.map(item => item.category) of the rows with available = true and
\* hidden = false.
VisibleCategories ==
    LET ids == AscendingIds({i \in DOMAIN cars : Visible(i)})
    IN  [k \in 1..Len(ids) |-> cars[ids[k]].category]

GetCategoriesCall(p) ==
    /\ pc[p] = "idle"
    /\ call' = [call EXCEPT ![p] = FreshCall("getCategories", EmptyInput, 0)]
    /\ pc' = [pc EXCEPT ![p] = "categories_query"]
    /\ UNCHANGED <<store, calls>>

GetCategoriesQuery(p) ==
    /\ pc[p] = "categories_query"
    /\ pc' = [pc EXCEPT ![p] = "idle"]
    /\ LET c == call[p]
       IN  \/ call' = [call EXCEPT ![p] =
                  [c EXCEPT !.issued = Append(@, Req("cars.select", {}, TRUE)),
                            !.result = Returned(SortStrings(UniqueValues(
                                           FilterBoolean(VisibleCategories))))]]
           \/ \E via \in StoreErrorVia :
              call' = [call EXCEPT ![p] =
                  [c EXCEPT !.issued = Append(@, Req("cars.select", {}, FALSE)),
                            !.result = Raised(via, "cars.select")]]
    /\ UNCHANGED <<store, calls>>

\* ------------------------------------------------------------------- inputs
Img(path, order) == [path |-> path, sort_order |-> order]

\* createCar payloads: an empty name; a car with every related collection
\* (one image without a path); a bare car.
CreateFull ==
    [EmptyInput EXCEPT
        !.keys = {"name", "category", "description", "short_description", "available",
                  "pricing", "images", "features", "specifications"},
        !.name = <<"A", " ", "b", "!">>, !.category = "suv",
        !.description = NULL, !.short_description = "s", !.available = NULL,
        !.pricing = [base_price |-> 100],
        !.images = <<Img("x", <<1>>), Img(NULL, <<>>)>>,
        !.features = <<"gps">>, !.specifications = <<"v8">>]
CreateBare ==
    [EmptyInput EXCEPT !.keys = {"name", "category", "hidden"},
                       !.name = <<"-", "a", "_", "1">>, !.category = "suv", !.hidden = T]
CreateNameless ==
    [CreateFull EXCEPT !.name = <<>>]
CreateInputs == {CreateFull, CreateBare, CreateNameless}

\* updateCar patches
UpdateNoImages == [EmptyInput EXCEPT !.keys = {"images"}]
UpdateRename ==
    [EmptyInput EXCEPT !.keys = {"name"}, !.name = <<"b", " ", "-", "A">>]
UpdateNulls ==
    [EmptyInput EXCEPT !.keys = {"description", "short_description", "available", "hidden"},
                       !.description = "d", !.short_description = NULL,
                       !.available = NULL, !.hidden = F]
UpdateRelated ==
    [EmptyInput EXCEPT !.keys = {"category", "pricing", "images", "features", "specifications"},
                       !.category = "van", !.pricing = [base_price |-> 200],
                       !.images = <<Img("y", <<0>>), Img("x", <<2>>)>>,
                       !.features = <<"abs", "gps">>, !.specifications = <<"v6">>]
UpdateInputs == {UpdateNoImages, UpdateRename, UpdateNulls, UpdateRelated}

\* Car identifiers a caller may name: those the store can give out.
CarIds == 1..MaxCars

\* --------------------------------------------------------------- one caller
Callers == {"p1"}

Next ==
    \E p \in Callers :
        \/ \E d \in CreateInputs : CreateCarCall(p, d)
        \/ createCar(p)
        \/ \E id \in CarIds, u \in UpdateInputs : UpdateCarCall(p, id, u)
        \/ updateCar(p)
        \/ \E id \in CarIds : DeleteCarCall(p, id)
        \/ deleteCar(p)

Spec == Init /\ [][Next]_vars

\* ---------------------------------------------------------- the read side
\* createCar payloads for the cars of the fleet: plain, featured in another
\* category, hidden, unavailable, without a category.
FleetCar(category, keys) ==
    [EmptyInput EXCEPT !.keys = {"name", "category"} \cup keys, !.name = <<"a">>,
                       !.category = category, !.available = F, !.featured = T,
                       !.hidden = T]
FleetInputs ==
    {FleetCar("suv", {}), FleetCar("van", {"featured"}), FleetCar("suv", {"hidden"}),
     FleetCar("suv", {"available"}), FleetCar("", {})}

\* The store after createCar has succeeded n times with payloads of
\* FleetInputs.
InitFleet ==
    /\ \E n \in 0..MaxFleet : \E f \in [1..n -> FleetInputs] :
          /\ cars = [i \in 1..n |-> BaseCarPayload(f[i], i)]
          /\ nextCarId = n + 1
    /\ car_pricing = <<>>
    /\ car_images = <<>>
    /\ car_features = <<>>
    /\ car_specifications = <<>>
    /\ bucket = Paths
    /\ nextImageId = 1
    /\ homepage_settings = <<>>
    /\ pc = [p \in Procs |-> "idle"]
    /\ call = [p \in Procs |-> FreshCall("none", EmptyInput, 0)]
    /\ calls = 0

NextFleet ==
    \E p \in Callers :
        \/ GetVisibleCall(p)
        \/ GetVisibleQuery(p)
        \/ \E id \in {0, 1}, l \in {<<>>, <<1>>} : GetRelatedCall(p, id, l)
        \/ GetRelatedCategory(p)
        \/ GetRelatedQuery(p)
        \/ GetCategoriesCall(p)
        \/ GetCategoriesQuery(p)

SpecFleet == InitFleet /\ [][NextFleet]_vars

\* ------------------------------------------------- getCarById, getCarBySlug
\* a.sort_order ?? 0
SortKey(img) == IF img.sort_order = <<>> THEN 0 ELSE img.sort_order[1]

RECURSIVE InsertSorted(_, _)
\* img put into the sorted sequence behind the rows that do not compare
\* greater ((a, b) => key(a) - key(b) under the stable Array.prototype.sort).
InsertSorted(sorted, img) ==
    IF sorted = <<>> THEN <<img>>
    ELSE IF SortKey(Head(sorted)) <= SortKey(img)
         THEN <<Head(sorted)>> \o InsertSorted(Tail(sorted), img)
         ELSE <<img>> \o sorted

RECURSIVE SortBySortOrder(_)
\* images.sort((a, b) => (a.sort_order ?? 0) - (b.sort_order ?? 0))
SortBySortOrder(imgs) ==
    IF imgs = <<>> THEN <<>>
    ELSE InsertSorted(SortBySortOrder(SubSeq(imgs, 1, Len(imgs) - 1)), imgs[Len(imgs)])

\* SortImages that returns the images in the order of the store's answer.
SortImagesNever(imgs) == imgs

\* if (images.length > 0 && 'sort_order' in images[0]) images.sort(...)
SortImages(imgs) ==
    IF Len(imgs) > 0 /\ "sort_order" \in DOMAIN imgs[1] THEN SortBySortOrder(imgs) ELSE imgs

\* The answers the store may give for the embedded rows `rows`: the select
\* names no order, so the rows come in any order.
Answers(rows) ==
    LET n == Len(rows)
        perms == {f \in [1..n -> 1..n] : \A i, j \in 1..n : i # j => f[i] # f[j]}
    IN  {[k \in 1..n |-> rows[f[k]]] : f \in perms}

\* pricing: Array.isArray(pricing) ? pricing[0] || null : ...; as a sequence
\* of at most one row.
FirstOrNull(rows) == IF rows = <<>> THEN <<>> ELSE <<rows[1]>>

\* assembledCar for the row of car id and the image rows imgs of the answer.
AssembledCar(id, imgs) ==
    [id |-> id,
     slug |-> cars[id].slug,
     available |-> Coalesce(cars[id].available, T),
     featured |-> Coalesce(cars[id].featured, F),
     hidden |-> Coalesce(cars[id].hidden, F),
     pricing |-> FirstOrNull(SelectRows(car_pricing, "car_id", {id})),
     images |-> SortImages(imgs),
     features |-> SelectRows(car_features, "car_id", {id}),
     specifications |-> SelectRows(car_specifications, "car_id", {id})]

GetCarByIdCall(p, id) ==
    /\ pc[p] = "idle"
    /\ call' = [call EXCEPT ![p] = FreshCall("getCarById", EmptyInput, id)]
    /\ pc' = [pc EXCEPT ![p] = "getcar_query"]
    /\ UNCHANGED <<store, calls>>

GetCarBySlugCall(p, slug) ==
    /\ pc[p] = "idle"
    /\ call' = [call EXCEPT ![p] =
          [FreshCall("getCarBySlug", EmptyInput, 0) EXCEPT !.slug = slug]]
    /\ pc' = [pc EXCEPT ![p] = "getcar_query"]
    /\ UNCHANGED <<store, calls>>

\* The car rows .eq("id", id), respectively .eq("slug", slug), selects.
GetCarMatches(c) ==
    IF c.op = "getCarById" THEN {i \in DOMAIN cars : i = c.carId}
    ELSE {i \in DOMAIN cars : cars[i].slug = c.slug}

\* select *, pricing:car_pricing(*), images:car_images(*), ... maybeSingle():
\* no row gives null, one row the assembled car; an error of the store (more
\* than one row is one) is raised by the catch.
GetCarQuery(p) ==
    /\ pc[p] = "getcar_query"
    /\ pc' = [pc EXCEPT ![p] = "idle"]
    /\ LET c == call[p]
           m == GetCarMatches(c)
       IN  \/ /\ m = {}
              /\ call' = [call EXCEPT ![p] =
                    [c EXCEPT !.issued = Append(@, Req("cars.select", {}, TRUE)),
                              !.result = Returned(<<>>)]]
           \/ \E id \in m :
              /\ m = {id}
              /\ \E imgs \in Answers(SelectRows(car_images, "car_id", {id})) :
                    call' = [call EXCEPT ![p] =
                       [c EXCEPT !.issued = Append(@, Req("cars.select", {}, TRUE)),
                                 !.existing = imgs,
                                 !.result = Returned(<<AssembledCar(id, imgs)>>)]]
           \/ \E via \in StoreErrorVia :
              call' = [call EXCEPT ![p] =
                  [c EXCEPT !.issued = Append(@, Req("cars.select", {}, FALSE)),
                            !.result = Raised(via, "cars.select")]]
    /\ UNCHANGED <<store, calls>>

\* The sort orders of the image payloads, and the path of the i-th image
\* of a car (paths of one car are distinct or absent).
SortOrders == {<<>>, <<0>>, <<1>>, <<2>>}
ImagePathAt(i) == IF i = 1 THEN "x" ELSE IF i = 2 THEN "y" ELSE NULL

\* createCar payloads with up to MaxImages images of any sort orders.
GetCarInputs ==
    {[EmptyInput EXCEPT !.keys = {"name", "category", "images"},
                        !.name = <<"A", " ", "b">>, !.category = "suv",
                        !.images = [i \in 1..Len(o) |-> Img(ImagePathAt(i), o[i])]] :
        o \in UNION {[1..k -> SortOrders] : k \in 0..MaxImages}}

\* The store after one createCar with a payload of GetCarInputs has
\* succeeded.
InitGet ==
    /\ \E d \in GetCarInputs :
          /\ cars = (1 :> BaseCarPayload(d, 1))
          /\ car_images = ImageRows(d.images, 1, 1)
          /\ nextImageId = Len(d.images) + 1
          /\ homepage_settings = <<>>
    /\ nextCarId = 2
    /\ car_pricing = <<>>
    /\ car_features = <<>>
    /\ car_specifications = <<>>
    /\ bucket = Paths
    /\ pc = [p \in Procs |-> "idle"]
    /\ call = [p \in Procs |-> FreshCall("none", EmptyInput, 0)]
    /\ calls = 0

NextGet ==
    \E p \in Callers :
        \/ \E id \in {1, 2} : GetCarByIdCall(p, id)
        \/ \E slug \in {<<"a", "-", "b">>, <<"b">>} : GetCarBySlugCall(p, slug)
        \/ GetCarQuery(p)

SpecGet == InitGet /\ [][NextGet]_vars

\* ------------------------------------------------------ generateSlug alone
\* The names of up to MaxLen characters.
Names == UNION {[1..n -> Chars] : n \in 0..MaxLen}

\* A caller is about to apply generateSlug to a name of Names.
InitSlug ==
    /\ cars = <<>>
    /\ car_pricing = <<>>
    /\ car_images = <<>>
    /\ car_features = <<>>
    /\ car_specifications = <<>>
    /\ bucket = Paths
    /\ nextCarId = 1
    /\ nextImageId = 1
    /\ homepage_settings = <<>>
    /\ calls = 0
    /\ \E name \in Names :
          /\ pc = [p \in Procs |-> IF p \in Callers THEN "slug" ELSE "idle"]
          /\ call = [p \in Procs |->
                FreshCall(IF p \in Callers THEN "generateSlug" ELSE "none",
                          [EmptyInput EXCEPT !.name = IF p \in Callers THEN name ELSE <<>>],
                          0)]

GenerateSlugReturn(p) ==
    /\ pc[p] = "slug"
    /\ pc' = [pc EXCEPT ![p] = "idle"]
    /\ call' = [call EXCEPT ![p] =
          [@ EXCEPT !.result = Returned(generateSlug(call[p].input.name))]]
    /\ UNCHANGED <<store, calls>>

NextSlug == \E p \in Callers : GenerateSlugReturn(p)

SpecSlug == InitSlug /\ [][NextSlug]_vars

\* -------------------------------------------------------------- two callers
\* A patch that carries features only.
UpdateFeatures == [EmptyInput EXCEPT !.keys = {"features"}, !.features = <<"usb">>]
TwoInputs == {UpdateRelated, UpdateFeatures, UpdateNoImages}

\* The store after createCar(CreateFull) has succeeded.
InitTwo ==
    /\ cars = (1 :> BaseCarPayload(CreateFull, 1))
    /\ car_pricing = <<[car_id |-> 1, base_price |-> CreateFull.pricing.base_price]>>
    /\ car_images = ImageRows(CreateFull.images, 1, 1)
    /\ car_features = ValueRows(CreateFull.features, 1)
    /\ car_specifications = ValueRows(CreateFull.specifications, 1)
    /\ bucket = Paths
    /\ nextCarId = 2
    /\ nextImageId = Len(CreateFull.images) + 1
    /\ homepage_settings = <<>>
    /\ pc = [p \in Procs |-> "idle"]
    /\ call = [p \in Procs |-> FreshCall("none", EmptyInput, 0)]
    /\ calls = 0

\* Two callers update car 1; their calls interleave at the awaits.
NextTwo ==
    \E p \in Procs :
        \/ \E u \in TwoInputs : UpdateCarCall(p, 1, u)
        \/ updateCar(p)

SpecTwo == InitTwo /\ [][NextTwo]_vars

\* ------------------------------------------------- one caller, two cars
\* A patch that empties features and specifications.
UpdateClear ==
    [EmptyInput EXCEPT !.keys = {"features", "specifications"}]
ReplaceInputs == {UpdateRelated, UpdateClear, UpdateNoImages}

\* The store after createCar(CreateFull) has succeeded twice.
InitReplace ==
    /\ cars = [i \in 1..2 |-> BaseCarPayload(CreateFull, i)]
    /\ car_pricing = [i \in 1..2 |->
                         [car_id |-> i, base_price |-> CreateFull.pricing.base_price]]
    /\ car_images = ImageRows(CreateFull.images, 1, 1)
                       \o ImageRows(CreateFull.images, 2, Len(CreateFull.images) + 1)
    /\ car_features = ValueRows(CreateFull.features, 1) \o ValueRows(CreateFull.features, 2)
    /\ car_specifications = ValueRows(CreateFull.specifications, 1)
                               \o ValueRows(CreateFull.specifications, 2)
    /\ bucket = Paths
    /\ nextCarId = 3
    /\ nextImageId = 2 * Len(CreateFull.images) + 1
    /\ homepage_settings = <<>>
    /\ pc = [p \in Procs |-> "idle"]
    /\ call = [p \in Procs |-> FreshCall("none", EmptyInput, 0)]
    /\ calls = 0

NextReplace ==
    \E p \in Callers :
        \/ \E id \in CarIds, u \in ReplaceInputs : UpdateCarCall(p, id, u)
        \/ updateCar(p)

SpecReplace == InitReplace /\ [][NextReplace]_vars

\* ------------------------------------------------- the homepage settings page
\* HomepageSettingsPage (src/app/admin/homepage-settings/page.tsx).  The
\* component state of one page session lives in call[p]: carOptions (cars),
\* selectedCar ("" is 0) and currentSettingId (null is <<>>).  isLoading and
\* isSaving follow from pc: the page loads in "page_fetch_cars" and
\* "page_fetch_setting", saves in "page_save" and rests in "page_ready".

\* The id the store gives the next row of homepage_settings; the page never
\* deletes a row.
NextSettingId == Len(homepage_settings) + 1

\* The page is rendered: state at its useState defaults, the effect starts
\* fetchData.
PageMount(p) ==
    /\ pc[p] = "idle"
    /\ call[p].op = "none"
    /\ call' = [call EXCEPT ![p] = FreshCall("HomepageSettingsPage", EmptyInput, 0)]
    /\ pc' = [pc EXCEPT ![p] = "page_fetch_cars"]
    /\ UNCHANGED <<store, calls>>

\* fetchData, the cars query: .eq("available", true).eq("hidden", false);
\* an error is thrown to the catch, which skips the settings query.
PageFetchCars(p) ==
    /\ pc[p] = "page_fetch_cars"
    /\ \E ok \in BOOLEAN :
          IF ok
          THEN /\ call' = [call EXCEPT ![p].carOptions =
                                {i \in DOMAIN cars : Visible(i)}]
               /\ pc' = [pc EXCEPT ![p] = "page_fetch_setting"]
          ELSE /\ call' = call
               /\ pc' = [pc EXCEPT ![p] = "page_ready"]
    /\ UNCHANGED <<store, calls>>

\* .from("homepage_settings").select("*").single(): the row when the table
\* holds exactly one, otherwise data null and an error.
Single(tbl, ok) == IF ok /\ Len(tbl) = 1 THEN <<tbl[1]>> ELSE <<>>

\* fetchData, the settings query: a row sets selectedCar and
\* currentSettingId; without a row settingError is set and nothing changes.
PageFetchSetting(p) ==
    /\ pc[p] = "page_fetch_setting"
    /\ \E ok \in BOOLEAN :
          LET settingData == Single(homepage_settings, ok)
          IN  call' = IF settingData # <<>>
                      THEN [call EXCEPT
                              ![p].selectedCar = settingData[1].featured_car_id,
                              ![p].currentSettingId = <<settingData[1].id>>]
                      ELSE call
    /\ pc' = [pc EXCEPT ![p] = "page_ready"]
    /\ UNCHANGED <<store, calls>>

\* The effect depends on [supabase, toast]: it runs fetchData again, on the
\* state as it is, when a render hands it a new client or a new toast; the
\* hooks that decide this are not part of the page.
PageEffectRerun(p) ==
    /\ pc[p] = "page_ready"
    /\ pc' = [pc EXCEPT ![p] = "page_fetch_cars"]
    /\ UNCHANGED <<store, call, calls>>

\* <Select value={selectedCar} onValueChange={setSelectedCar}> over the cars
\* the page has fetched.
PageSelect(p, id) ==
    /\ pc[p] = "page_ready"
    /\ id \in call[p].carOptions
    /\ id # call[p].selectedCar
    /\ call' = [call EXCEPT ![p].selectedCar = id]
    /\ UNCHANGED <<store, pc, calls>>

\* A click on Save (disabled while isLoading || isSaving): setIsSaving(true).
HandleSaveCall(p) ==
    /\ pc[p] = "page_ready"
    /\ calls < MaxCalls
    /\ calls' = calls + 1
    /\ pc' = [pc EXCEPT ![p] = "page_save"]
    /\ UNCHANGED <<store, call>>

RECURSIVE UpdateSetting(_, _, _)
\* .update({featured_car_id: selectedCar, ...}).eq("id", currentSettingId)
UpdateSetting(tbl, id, car) ==
    IF tbl = <<>> THEN <<>>
    ELSE <<IF Head(tbl).id = id THEN [Head(tbl) EXCEPT !.featured_car_id = car]
           ELSE Head(tbl)>> \o UpdateSetting(Tail(tbl), id, car)

\* .insert({featured_car_id: selectedCar})
InsertSetting(tbl, car) == Append(tbl, [id |-> NextSettingId, featured_car_id |-> car])

\* handleSave: update the row of currentSettingId when it is set, insert a
\* row otherwise; an error goes to the catch.  Neither branch sets
\* currentSettingId, and finally runs setIsSaving(false).
HandleSave(p) ==
    /\ pc[p] = "page_save"
    /\ \E ok \in BOOLEAN :
          IF call[p].currentSettingId # <<>>
          THEN /\ homepage_settings' =
                     IF ok THEN UpdateSetting(homepage_settings,
                                              call[p].currentSettingId[1],
                                              call[p].selectedCar)
                     ELSE homepage_settings
               /\ call' = [call EXCEPT ![p].issued =
                              Append(call[p].issued,
                                     Req("homepage_settings.update", {}, ok))]
          ELSE /\ homepage_settings' =
                     IF ok THEN InsertSetting(homepage_settings, call[p].selectedCar)
                     ELSE homepage_settings
               /\ call' = [call EXCEPT ![p].issued =
                              Append(call[p].issued,
                                     Req("homepage_settings.insert", {}, ok))]
    /\ pc' = [pc EXCEPT ![p] = "page_ready"]
    /\ UNCHANGED <<cars, related, bucket, nextCarId, nextImageId, calls>>

SettingsInputs == {FleetCar("suv", {}), FleetCar("van", {}), FleetCar("suv", {"hidden"})}

\* One page session over a store that holds cars and an empty
\* homepage_settings table.
InitSettings ==
    /\ \E n \in 0..MaxCars : \E f \in [1..n -> SettingsInputs] :
          /\ cars = [i \in 1..n |-> BaseCarPayload(f[i], i)]
          /\ nextCarId = n + 1
    /\ car_pricing = <<>>
    /\ car_images = <<>>
    /\ car_features = <<>>
    /\ car_specifications = <<>>
    /\ bucket = Paths
    /\ nextImageId = 1
    /\ homepage_settings = <<>>
    /\ pc = [p \in Procs |-> "idle"]
    /\ call = [p \in Procs |-> FreshCall("none", EmptyInput, 0)]
    /\ calls = 0

NextSettings ==
    \E p \in Callers :
       \/ PageMount(p)
       \/ PageFetchCars(p)
       \/ PageFetchSetting(p)
       \/ PageEffectRerun(p)
       \/ \E id \in CarIds : PageSelect(p, id)
       \/ HandleSaveCall(p)
       \/ HandleSave(p)

SpecSettings == InitSettings /\ [][NextSettings]_vars

\* ------------------------------------------------------------------- claims
Last(s) == s[Len(s)]

\* Caller p is back from a call of op.
Done(p, op) == pc[p] = "idle" /\ call[p].op = op /\ call[p].result.status # "none"

\* The call of p sent the request named name and the store failed it.
FailedReq(c, name) == \E i \in 1..Len(c.issued) : c.issued[i].req = name /\ ~c.issued[i].ok

RowsOf(id) ==
    SelectRows(car_pricing, "car_id", {id}) \o SelectRows(car_features, "car_id", {id})
    \o SelectRows(car_specifications, "car_id", {id})

\* C1: when createCar has inserted the root row and a later related insert
\* failed, createCar has sent the compensating delete of the root row as its
\* last request, the row is gone whenever the store carried that delete out,
\* and the error raised is the translated error of the failed insert whether
\* or not the delete succeeded.
C1_CreateCompensates ==
    \A p \in Procs :
        (Done(p, "createCar") /\ call[p].err # "none") =>
            LET c == call[p]
            IN  /\ FailedReq(c, c.err)
                /\ c.result = Raised("handleSupabaseError", c.err)
                /\ Last(c.issued).req = "cars.delete"
                /\ (Last(c.issued).ok => c.carId \notin DOMAIN cars)

\* C1 witness: the features insert failed after the root insert and the
\* root row is gone when createCar has raised.
C1_Witness ==
    \E p \in Procs :
        /\ Done(p, "createCar")
        /\ call[p].err = "car_features.insert"
        /\ call[p].issued[1] = Req("cars.insert", {}, TRUE)
        /\ call[p].result.status = "error"
        /\ call[p].carId \notin DOMAIN cars

\* C2: in deleteCar, once one of the four related deletes has failed, the
\* root delete and the storage removal are never sent and deleteCar raises.
C2_RelatedFailureAborts ==
    \A p \in Procs :
        LET c == call[p]
        IN  (/\ c.op = "deleteCar"
             /\ \E t \in {"car_pricing.delete", "car_features.delete",
                          "car_specifications.delete", "car_images.delete"} :
                   FailedReq(c, t))
            => /\ \A i \in 1..Len(c.issued) :
                     c.issued[i].req \notin {"cars.delete", "storage.remove"}
               /\ (pc[p] = "idle" => c.result.status = "error")

\* C3: when deleteCar(carId) has returned true, no row of carId is left in
\* cars, car_pricing, car_images, car_features or car_specifications.
C3_DeleteNeverPartial ==
    \A p \in Procs :
        (Done(p, "deleteCar") /\ call[p].result.status = "ok") =>
            /\ call[p].carId \notin DOMAIN cars
            /\ RowsOf(call[p].carId) = <<>>
            /\ SelectRows(car_images, "car_id", {call[p].carId}) = <<>>

\* C4: when updateCar(carId, {images: []}) has returned the car, none of the
\* image rows the car had is left and a storage removal was sent for every
\* path those rows stored.
C4_EmptyImagesRemovesAll ==
    \A p \in Procs :
        LET c == call[p]
        IN  (/\ Done(p, "updateCar")
             /\ Has(c.input, "images") /\ c.input.images = <<>>
             /\ c.result.status = "ok")
            => /\ SelectRows(car_images, "id", IdsOf(c.existing)) = <<>>
               /\ PathsOf(c.existing) \subseteq
                     UNION {c.issued[i].paths : i \in 1..Len(c.issued)}

\* The step in which the root patch of the updateCar call of p is applied.
RootPatchApplied(p) ==
    /\ pc[p] = "update_root"
    /\ call'[p].issued = Append(call[p].issued, Req("cars.update", {}, TRUE))
    /\ call[p].carId \in DOMAIN cars

\* C5 as claimed: the root patch of updateCar leaves every field the input
\* omits as it is stored, and an explicit null on description,
\* short_description, available, featured or hidden clears the stored value.
C5_NullClears ==
    [][\A p \in Procs :
          RootPatchApplied(p) =>
             LET u == call[p].input
                 old == cars[call[p].carId]
                 new == cars'[call[p].carId]
             IN  /\ \A f \in {"name", "category"} \cup NullableFields :
                        ~Has(u, f) => new[f] = old[f]
                 /\ \A f \in NullableFields :
                        (Has(u, f) /\ u[f] = NULL) => new[f] = NULL]_vars

\* C5 amended: the root patch of updateCar changes only fields present in
\* the input (and slug with name): an omitted field keeps its stored value,
\* a present name or category is stored, a present non-null nullable field
\* is stored, and an explicit null on a nullable field leaves the stored
\* value as it is.
C5_NullLeavesUnchanged ==
    [][\A p \in Procs :
          RootPatchApplied(p) =>
             LET u == call[p].input
                 old == cars[call[p].carId]
                 new == cars'[call[p].carId]
             IN  /\ \A f \in {"name", "category"} \cup NullableFields :
                        ~Has(u, f) => new[f] = old[f]
                 /\ \A f \in {"name", "category"} : Has(u, f) => new[f] = u[f]
                 /\ new.slug = IF Has(u, "name") THEN generateSlug(u.name) ELSE old.slug
                 /\ new.created_at = old.created_at
                 /\ \A f \in NullableFields :
                        Has(u, f) => new[f] = IF u[f] = NULL THEN old[f] ELSE u[f]]_vars

\* C5 witness: updateCar with short_description: null has returned the car
\* and the stored short description is still the one createCar stored.
C5_Witness ==
    \E p \in Procs :
        /\ Done(p, "updateCar")
        /\ call[p].result.status = "ok"
        /\ Has(call[p].input, "short_description")
        /\ call[p].input.short_description = NULL
        /\ cars[call[p].carId].short_description = "s"

\* C6: every error an operation raises after a request to the relational or
\* the object store failed was built by handleSupabaseError.
C6_StoreErrorsTranslated ==
    \A p \in Procs :
        LET r == call[p].result
        IN  (pc[p] = "idle" /\ r.status = "error" /\ FailedReq(call[p], r.cause))
            => r.via = "handleSupabaseError"

\* C7: createCar with an empty name raises the validation error in the step
\* of the call itself: no request is sent and the store is unchanged.
C7_EmptyNameRejected ==
    [][\A p \in Procs :
          (/\ pc[p] = "idle"
           /\ calls' = calls + 1
           /\ call'[p].op = "createCar"
           /\ call'[p].input.name = <<>>)
          => /\ pc'[p] = "idle"
             /\ call'[p].result = Raised("validation", "name")
             /\ call'[p].issued = <<>>
             /\ store' = store]_vars

\* C7 witness: createCar with an empty name has raised the validation error
\* without a request, in a store that holds a car.
C7_Witness ==
    \E p \in Procs :
        /\ Done(p, "createCar")
        /\ call[p].input.name = <<>>
        /\ call[p].result.via = "validation"
        /\ call[p].issued = <<>>
        /\ DOMAIN cars # {}

\* C8: every stored car row has slug = generateSlug(name).
C8_SlugFollowsName ==
    \A id \in DOMAIN cars : cars[id].slug = generateSlug(cars[id].name)

\* C8 witness: updateCar has renamed a car whose stored name differs from
\* its slug.
C8_Witness ==
    \E p \in Procs :
        /\ Done(p, "updateCar")
        /\ call[p].result.status = "ok"
        /\ Has(call[p].input, "name")
        /\ cars[call[p].carId].name = call[p].input.name
        /\ cars[call[p].carId].slug # cars[call[p].carId].name
        /\ cars[call[p].carId].slug = <<"b", "-", "a">>

\* C9: the cars getVisibleCarsForFleet returns are stored with available
\* true and hidden false, and no car stored with featured false comes before
\* one stored with featured true.
C9_FleetVisibleFeaturedFirst ==
    [][\A p \in Procs :
          (pc[p] = "visible_query" /\ call'[p].result.status = "ok") =>
             LET r == call'[p].result.value
             IN  /\ \A k \in 1..Len(r) :
                        /\ r[k].id \in DOMAIN cars
                        /\ cars[r[k].id].hidden # T
                        /\ cars[r[k].id].available # F
                 /\ \A k, m \in 1..Len(r) :
                        (cars[r[k].id].featured = T /\ cars[r[m].id].featured = F) => k < m]_vars

\* C9 witness: the fleet query has returned a featured car before a car that
\* was created later and is not featured, while the store holds a hidden and
\* an unavailable car.
C9_Witness ==
    \E p \in Procs :
        /\ Done(p, "getVisibleCarsForFleet")
        /\ call[p].result.status = "ok"
        /\ LET r == call[p].result.value
           IN  /\ Len(r) >= 2
               /\ r[1].isFeatured = T /\ r[2].isFeatured = F
               /\ r[1].id < r[2].id
        /\ \E i \in DOMAIN cars : cars[i].hidden = T
        /\ \E i \in DOMAIN cars : cars[i].available = F

\* C10: getRelatedCars(carId, limit) returns at most limit cars (3 when no
\* limit is given), never carId, only cars stored available, not hidden and
\* with the category of carId; when carId has no row or no category it
\* returns the empty sequence after the category lookup, and raises only
\* when that lookup itself failed.
C10_RelatedCars ==
    [][\A p \in Procs :
          (pc[p] \in {"related_category", "related_query"} /\ pc'[p] = "idle") =>
             LET c == call'[p]
                 r == c.result
             IN  /\ r.status = "ok" =>
                        /\ Len(r.value) <= (IF c.limit = <<>> THEN 3 ELSE c.limit[1])
                        /\ \A k \in 1..Len(r.value) :
                               LET i == r.value[k].id
                               IN  /\ i # c.carId
                                   /\ i \in DOMAIN cars
                                   /\ cars[i].available = T
                                   /\ cars[i].hidden = F
                                   /\ c.carId \in DOMAIN cars
                                   /\ cars[i].category = cars[c.carId].category
                 /\ ~HasCategory(c.carId) =>
                        /\ pc[p] = "related_category"
                        /\ IF r.status = "ok" THEN r.value = <<>>
                           ELSE Last(c.issued) = Req("cars.select", {}, FALSE)]_vars

\* C10 witness: getRelatedCars without a limit has returned three cars while
\* more than three cars match.
C10_Witness ==
    \E p \in Procs :
        /\ Done(p, "getRelatedCars")
        /\ call[p].limit = <<>>
        /\ call[p].result.status = "ok"
        /\ Len(call[p].result.value) = 3
        /\ Cardinality(RelatedMatches(call[p].category, call[p].carId)) > 3

\* C11: when getCarById or getCarBySlug has returned a car, its images are
\* the image rows of the store's answer, and they are in ascending order of
\* sort_order (a null sort_order counting as 0) whenever a row at any
\* position of the answer carries the field sort_order.
C11_ImagesSorted ==
    \A p \in Procs :
        (/\ pc[p] = "idle"
         /\ call[p].op \in {"getCarById", "getCarBySlug"}
         /\ call[p].result.status = "ok"
         /\ call[p].result.value # <<>>)
        => LET raw == call[p].existing
               imgs == call[p].result.value[1].images
           IN  /\ Len(imgs) = Len(raw)
               /\ \A k \in 1..Len(raw) : \E m \in 1..Len(imgs) : imgs[m] = raw[k]
               /\ (\E k \in 1..Len(raw) : "sort_order" \in DOMAIN raw[k]) =>
                     \A k, m \in 1..Len(imgs) :
                         k < m => SortKey(imgs[k]) <= SortKey(imgs[m])

\* C11 witness: getCarBySlug has returned images in the order 0, 1, 2 from
\* an answer that carried them in the order 2, 0, 1.
C11_Witness ==
    \E p \in Procs :
        /\ Done(p, "getCarBySlug")
        /\ call[p].result.status = "ok"
        /\ call[p].result.value # <<>>
        /\ [k \in 1..Len(call[p].existing) |-> call[p].existing[k].sort_order]
              = <<<<2>>, <<0>>, <<1>>>>
        /\ [k \in 1..3 |-> call[p].result.value[1].images[k].sort_order]
              = <<<<0>>, <<1>>, <<2>>>>

\* C12: the sequence getCategories returns holds exactly the categories of
\* the cars stored with available true and hidden false that are neither
\* null nor empty, each of them once, in ascending lexicographic order.
C12_CategoriesSortedUnique ==
    [][\A p \in Procs :
          (pc[p] = "categories_query" /\ call'[p].result.status = "ok") =>
             LET r == call'[p].result.value
             IN  /\ {r[k] : k \in 1..Len(r)} =
                       {cars[i].category :
                           i \in {j \in DOMAIN cars : cars[j].available = T
                                                      /\ cars[j].hidden = F}}
                       \ {NULL, ""}
                 /\ \A k, m \in 1..Len(r) :
                        k < m => CodeUnitsLess(CodeUnits(r[k]), CodeUnits(r[m]))]_vars

\* C12 witness: getCategories has returned suv before van from a store whose
\* first visible car is a van, where two visible cars are suvs, one visible
\* car has the empty category and one van or suv is not visible.
C12_Witness ==
    \E p \in Procs :
        /\ Done(p, "getCategories")
        /\ call[p].result.status = "ok"
        /\ call[p].result.value = <<"suv", "van">>
        /\ 1 \in DOMAIN cars /\ Visible(1) /\ cars[1].category = "van"
        /\ Cardinality({i \in DOMAIN cars : Visible(i) /\ cars[i].category = "suv"}) >= 2
        /\ \E i \in DOMAIN cars : Visible(i) /\ cars[i].category = ""
        /\ \E i \in DOMAIN cars : ~Visible(i)

\* C13: for every name, generateSlug(name) holds only lowercase letters,
\* digits, underscores and hyphens, neither starts nor ends with a hyphen,
\* has no two hyphens in a row, and is empty for the empty name.
C13_SlugWellFormed ==
    \A p \in Procs :
        Done(p, "generateSlug") =>
            LET r == call[p].result.value
            IN  /\ \A k \in 1..Len(r) : r[k] \in {"a", "b", "_", "1", "-"}
                /\ r # <<>> => (r[1] # "-" /\ r[Len(r)] # "-")
                /\ \A k \in 1..(Len(r) - 1) : ~(r[k] = "-" /\ r[k + 1] = "-")
                /\ call[p].input.name = <<>> => r = <<>>

\* C13 witness: generateSlug has turned "A -b" into "a-b".
C13_Witness ==
    \E p \in Procs :
        /\ Done(p, "generateSlug")
        /\ call[p].input.name = <<"A", " ", "-", "b">>
        /\ call[p].result.value = <<"a", "-", "b">>

\* C14: for a carId that no row of cars, car_pricing, car_images,
\* car_features or car_specifications carries (and for which the image
\* lookup of the call found no row), no step of deleteCar(carId) changes a
\* table or the bucket, the path list is empty, none of the steps is the
\* storage removal, and the call returns true unless a request of it failed.
C14_DeleteMissingIsNoOp ==
    [][\A p \in Procs :
          (/\ call[p].op = "deleteCar"
           /\ pc[p] \in {"delete_fetch", "delete_related", "delete_root", "delete_storage"}
           /\ call[p].carId \notin DOMAIN cars
           /\ RowsOf(call[p].carId) = <<>>
           /\ SelectRows(car_images, "car_id", {call[p].carId}) = <<>>
           /\ call[p].existing = <<>>)
          => /\ store' = store
             /\ pc[p] # "delete_storage"
             /\ pc'[p] # "delete_storage"
             /\ PathsOf(call'[p].existing) = {}
             /\ (pc'[p] = "idle" /\ \A i \in 1..Len(call'[p].issued) : call'[p].issued[i].ok)
                   => call'[p].result = Returned(<<>>)]_vars

\* C14 witness: deleteCar(2) has returned true after the image lookup, the
\* four related deletes and the root delete, in a store that holds car 1
\* with its pricing and images and nothing of car 2.
C14_Witness ==
    \E p \in Procs :
        /\ Done(p, "deleteCar")
        /\ call[p].result = Returned(<<>>)
        /\ call[p].carId = 2
        /\ DOMAIN cars = {1}
        /\ nextCarId = 2
        /\ Len(call[p].issued) = 6
        /\ \A i \in 1..6 : call[p].issued[i].req # "storage.remove"
        /\ SelectRows(car_pricing, "car_id", {1}) # <<>>
        /\ SelectRows(car_images, "car_id", {1}) # <<>>
        /\ bucket = Paths

\* The values of the feature rows of car id, in the order of the table.
FeaturesOf(id) ==
    LET rows == SelectRows(car_features, "car_id", {id})
    IN  [k \in 1..Len(rows) |-> rows[k].v]

\* C15: when two callers are back from successful updateCar calls on the
\* same car that both supplied features, the feature rows of the car are
\* the list of one caller or the lists of both, one behind the other: the
\* calls interleave at the remote calls, nothing else is mixed in.
C15_ConcurrentFeatureOutcomes ==
    \A p, q \in Procs :
        (/\ p # q
         /\ Done(p, "updateCar") /\ Done(q, "updateCar")
         /\ call[p].result.status = "ok" /\ call[q].result.status = "ok"
         /\ call[p].carId = call[q].carId
         /\ Has(call[p].input, "features") /\ Has(call[q].input, "features"))
        => LET a == call[p].input.features
               b == call[q].input.features
           IN  FeaturesOf(call[p].carId) \in {a, b, a \o b, b \o a}

\* C15 witness: both callers are back from successful updateCar calls on
\* car 1 with different feature lists, and the car has the features of both,
\* which is the list of neither.
C15_Witness ==
    /\ Done("p1", "updateCar") /\ Done("p2", "updateCar")
    /\ call["p1"].result.status = "ok" /\ call["p2"].result.status = "ok"
    /\ call["p1"].carId = 1 /\ call["p2"].carId = 1
    /\ call["p1"].input.features = <<"abs", "gps">>
    /\ call["p2"].input.features = <<"usb">>
    /\ FeaturesOf(1) = <<"abs", "gps", "usb">>
    /\ FeaturesOf(1) # call["p1"].input.features
    /\ FeaturesOf(1) # call["p2"].input.features

\* The awaits of updateCar inside the try: the steps behind the root patch.
RelatedSteps ==
    {"update_pricing", "update_img_fetch", "update_img_storage", "update_img_delete",
     "update_img_upsert", "update_feat_delete", "update_feat_insert",
     "update_spec_delete", "update_spec_insert"}

\* C16: no step of updateCar behind the root patch writes to cars; when such
\* a step fails (the storage removal apart, whose failure is logged only)
\* updateCar raises an error in that step and the store stays as the steps
\* before left it, with the patched columns of the cars row as patched.
C16_UpdateNoRollback ==
    [][\A p \in Procs :
          pc[p] \in RelatedSteps =>
             LET c == call'[p]
                 u == c.input
             IN  /\ cars' = cars
                 /\ (~Last(c.issued).ok /\ Last(c.issued).req # "storage.remove") =>
                       /\ pc'[p] = "idle"
                       /\ c.result.status = "error"
                       /\ store' = store
                       /\ (c.issued[1] = Req("cars.update", {}, TRUE)
                           /\ c.carId \in DOMAIN cars) =>
                             \A f \in SentKeys(u) : cars'[c.carId][f] = PayloadValue(u, f)]_vars

\* C16 witness: updateCar has raised because the features insert failed; the
\* category it patched, the pricing it upserted and its delete of the old
\* features are all still in the store.
C16_Witness ==
    \E p \in Procs :
        /\ Done(p, "updateCar")
        /\ call[p].result.status = "error"
        /\ call[p].issued[1] = Req("cars.update", {}, TRUE)
        /\ Last(call[p].issued) = Req("car_features.insert", {}, FALSE)
        /\ call[p].carId \in DOMAIN cars
        /\ cars[call[p].carId].category = "van"
        /\ cars[call[p].carId].category # BaseCarPayload(CreateFull, 1).category
        /\ SelectRows(car_pricing, "car_id", {call[p].carId})
              = <<[car_id |-> call[p].carId, base_price |-> 200]>>
        /\ FeaturesOf(call[p].carId) = <<>>

\* C17: the storage removal of deleteCar is sent only behind a root delete
\* of the same call that succeeded, and it names the paths of the image rows
\* read in step 1; whether it succeeds or fails, the step returns true,
\* writes to no table, and the cars row stays deleted.
C17_DeleteStorageLast ==
    [][\A p \in Procs :
          (pc[p] = "delete_storage" /\ pc'[p] # "delete_storage") =>
             LET c == call'[p]
                 n == Len(c.issued)
             IN  /\ c.issued[n].req = "storage.remove"
                 /\ c.issued[n].paths = PathsOf(call[p].existing)
                 /\ c.issued[1] = Req("car_images.select", {}, TRUE)
                 /\ c.issued[n - 1] = Req("cars.delete", {}, TRUE)
                 /\ \A i \in 1..(n - 1) : c.issued[i].req # "storage.remove"
                 /\ pc'[p] = "idle"
                 /\ c.result = Returned(<<>>)
                 /\ cars' = cars
                 /\ related' = related
                 /\ c.carId \notin DOMAIN cars']_vars

\* C17 witness: deleteCar has returned true although the removal of the
\* stored image "x" failed; the cars row is gone and the object is still in
\* the bucket.
C17_Witness ==
    \E p \in Procs :
        /\ Done(p, "deleteCar")
        /\ call[p].result = Returned(<<>>)
        /\ Last(call[p].issued) = Req("storage.remove", {"x"}, FALSE)
        /\ call[p].carId \notin DOMAIN cars
        /\ nextCarId > call[p].carId
        /\ "x" \in bucket

\* The image rows the lookup of updateCar found whose path names a stored
\* object and is not a path of the incoming images.
RemovedImages(c) ==
    {c.existing[k] : k \in {j \in 1..Len(c.existing) :
        /\ c.existing[j].path \notin {NULL, ""}
        /\ \A i \in 1..Len(c.input.images) :
               c.input.images[i].path # c.existing[j].path}}

\* C18: in the image reconciliation of updateCar, the storage removal is
\* sent for the paths of the existing images that are absent from the
\* incoming list and, failed or not, is followed by the delete of their
\* rows; that delete is sent right behind the storage removal and removes
\* exactly these rows.
C18_StorageBeforeRows ==
    [][\A p \in Procs :
          LET c == call[p]
              gone == RemovedImages(c)
          IN  /\ pc[p] = "update_img_storage" =>
                    /\ Last(call'[p].issued).req = "storage.remove"
                    /\ Last(call'[p].issued).paths = {r.path : r \in gone}
                    /\ car_images' = car_images
                    /\ \A r \in gone : \E k \in 1..Len(car_images) : car_images[k].id = r.id
                    /\ pc'[p] = "update_img_delete"
                    /\ call'[p].result = NoResult
              /\ (pc[p] = "update_img_delete"
                  /\ Last(call'[p].issued) = Req("car_images.delete", {}, TRUE)) =>
                    /\ Last(c.issued).req = "storage.remove"
                    /\ Last(c.issued).paths = {r.path : r \in gone}
                    /\ car_images' = DeleteRows(car_images, "id", {r.id : r \in gone})
                    /\ pc'[p] # "idle"]_vars

\* C18 witness: updateCar has returned the car after the removal of the
\* stored image "x" failed and the delete of its row succeeded: the row is
\* gone, the object is still in the bucket.
C18_Witness ==
    \E p \in Procs :
        /\ Done(p, "updateCar")
        /\ call[p].result.status = "ok"
        /\ \E k \in 1..(Len(call[p].issued) - 1) :
              /\ call[p].issued[k] = Req("storage.remove", {"x"}, FALSE)
              /\ call[p].issued[k + 1] = Req("car_images.delete", {}, TRUE)
        /\ \E k \in 1..Len(call[p].existing) : call[p].existing[k].path = "x"
        /\ \A k \in 1..Len(car_images) : car_images[k].path # "x"
        /\ "x" \in bucket

\* The rows of car_images of car id with path path, as positions.
ImageRowsAt(id, path) ==
    {k \in 1..Len(car_images) : car_images[k].car_id = id /\ car_images[k].path = path}

\* C19: when updateCar with images has returned the car, every incoming
\* path has exactly one image row of the car, which carries the incoming
\* sort order and, when the path was stored before, is the row that stored
\* it; no two image rows of the car share a path.
C19_OneRowPerPath ==
    \A p \in Procs :
        LET c == call[p]
            id == c.carId
        IN  (/\ Done(p, "updateCar")
             /\ c.result.status = "ok"
             /\ Has(c.input, "images"))
            => /\ \A i \in 1..Len(c.input.images) :
                     LET img == c.input.images[i]
                     IN  img.path # NULL =>
                            /\ Cardinality(ImageRowsAt(id, img.path)) = 1
                            /\ \A k \in ImageRowsAt(id, img.path) :
                                  /\ car_images[k].sort_order = img.sort_order
                                  /\ \A j \in 1..Len(c.existing) :
                                        c.existing[j].path = img.path =>
                                           car_images[k].id = c.existing[j].id
               /\ \A k, m \in 1..Len(car_images) :
                     (/\ k # m
                      /\ car_images[k].car_id = id /\ car_images[m].car_id = id
                      /\ car_images[k].path # NULL)
                     => car_images[k].path # car_images[m].path

\* C19 witness: updateCar has returned the car after re-submitting the
\* stored path "x" with a new sort order next to the new path "y": the row
\* that stored "x" carries the new sort order and "y" has one row.
C19_Witness ==
    \E p \in Procs :
        /\ Done(p, "updateCar")
        /\ call[p].result.status = "ok"
        /\ call[p].input.images = <<Img("y", <<0>>), Img("x", <<2>>)>>
        /\ \E j \in 1..Len(call[p].existing) :
              /\ call[p].existing[j].path = "x"
              /\ \E k \in ImageRowsAt(call[p].carId, "x") :
                    /\ car_images[k].id = call[p].existing[j].id
                    /\ car_images[k].sort_order = <<2>>
        /\ Cardinality(ImageRowsAt(call[p].carId, "x")) = 1
        /\ Cardinality(ImageRowsAt(call[p].carId, "y")) = 1

\* The values of the specification rows of car id, in the order of the table.
SpecificationsOf(id) ==
    LET rows == SelectRows(car_specifications, "car_id", {id})
    IN  [k \in 1..Len(rows) |-> rows[k].v]

\* The log `issued` shows the replace of table tbl with the values vals: a
\* delete that succeeded, directly followed by an insert that succeeded when
\* vals is not empty, and no insert at all when it is.
ReplaceLogged(issued, tbl, vals) ==
    /\ \E k \in 1..Len(issued) :
          /\ issued[k] = Req(tbl \o ".delete", {}, TRUE)
          /\ vals # <<>> => (k < Len(issued) /\ issued[k + 1] = Req(tbl \o ".insert", {}, TRUE))
    /\ vals = <<>> => \A k \in 1..Len(issued) : issued[k].req # tbl \o ".insert"

\* C20: the steps of updateCar(carId) that replace features and
\* specifications leave the rows of every other car as they are, and when
\* the call returns the car, the feature rows of carId are the incoming
\* features if features were supplied (the specification rows the incoming
\* specifications if those were), written by a delete of all rows of carId
\* followed by the insert, with no insert sent for an empty sequence.
C20_WholesaleReplace ==
    [][\A p \in Procs :
          LET c == call'[p]
              id == c.carId
              u == c.input
          IN  /\ pc[p] \in {"update_feat_delete", "update_feat_insert",
                             "update_spec_delete", "update_spec_insert"} =>
                    /\ DeleteRows(car_features', "car_id", {id})
                          = DeleteRows(car_features, "car_id", {id})
                    /\ DeleteRows(car_specifications', "car_id", {id})
                          = DeleteRows(car_specifications, "car_id", {id})
              /\ (pc[p] = "update_reread" /\ c.result.status = "ok") =>
                    /\ Has(u, "features") =>
                          /\ [k \in 1..Len(SelectRows(car_features', "car_id", {id})) |->
                                 SelectRows(car_features', "car_id", {id})[k].v] = u.features
                          /\ ReplaceLogged(c.issued, "car_features", u.features)
                    /\ Has(u, "specifications") =>
                          /\ [k \in 1..Len(SelectRows(car_specifications', "car_id", {id})) |->
                                 SelectRows(car_specifications', "car_id", {id})[k].v]
                                = u.specifications
                          /\ ReplaceLogged(c.issued, "car_specifications",
                                           u.specifications)]_vars

\* C20 witness: updateCar has returned car 1 after replacing its feature gps
\* with abs and gps, and car 2 has its feature as before.
C20_Witness ==
    \E p \in Procs :
        /\ Done(p, "updateCar")
        /\ call[p].result.status = "ok"
        /\ call[p].carId = 1
        /\ call[p].input.features = <<"abs", "gps">>
        /\ FeaturesOf(1) = <<"abs", "gps">>
        /\ SpecificationsOf(1) = <<"v6">>
        /\ FeaturesOf(2) = <<"gps">>
        /\ SpecificationsOf(2) = <<"v8">>

\* The pricing rows of car id.
PricingOf(tbl, id) == SelectRows(tbl, "car_id", {id})

\* C21: after every step of createCar, updateCar and deleteCar no car
\* identifier has more than one pricing row; the pricing step of createCar
\* adds one row for the new car, and the pricing step of updateCar leaves
\* the car with the one incoming pricing row, replacing the row the car had
\* without adding another.
C21_OnePricingRow ==
    [][/\ \A id \in 1..nextCarId : Len(PricingOf(car_pricing', id)) <= 1
       /\ \A p \in Procs :
             LET c == call'[p]
                 row == [car_id |-> c.carId, base_price |-> c.input.pricing.base_price]
             IN  /\ (pc[p] = "create_pricing" /\ Last(c.issued).ok) =>
                       /\ PricingOf(car_pricing, c.carId) = <<>>
                       /\ car_pricing' = Append(car_pricing, row)
                 /\ (pc[p] = "update_pricing" /\ Last(c.issued).ok) =>
                       /\ PricingOf(car_pricing', c.carId) = <<row>>
                       /\ DeleteRows(car_pricing', "car_id", {c.carId})
                             = DeleteRows(car_pricing, "car_id", {c.carId})
                       /\ Len(car_pricing') =
                             Len(car_pricing)
                                + (IF PricingOf(car_pricing, c.carId) = <<>> THEN 1 ELSE 0)]_vars

\* C21 witness: updateCar with pricing has returned a car that createCar had
\* given a pricing row: the car has the one row with the new price.
C21_Witness ==
    \E p \in Procs :
        /\ Done(p, "updateCar")
        /\ call[p].result.status = "ok"
        /\ Has(call[p].input, "pricing")
        /\ call[p].carId \in DOMAIN cars
        /\ cars[call[p].carId].short_description = "s"
        /\ PricingOf(car_pricing, call[p].carId)
              = <<[car_id |-> call[p].carId, base_price |-> 200]>>
        /\ Len(car_pricing) = 1

\* C22: when createCar has raised an error, no row of cars, car_pricing,
\* car_images, car_features or car_specifications carries the identifier
\* the call had given the new car.
C22_CreateFailureLeavesNoRows ==
    \A p \in Procs :
        (Done(p, "createCar") /\ call[p].result.status = "error") =>
            /\ call[p].carId \notin DOMAIN cars
            /\ RowsOf(call[p].carId) = <<>>
            /\ SelectRows(car_images, "car_id", {call[p].carId}) = <<>>

\* C23: on the homepage settings page, starting from an empty
\* homepage_settings table, the successful handleSave calls of one page
\* session leave at most one row in homepage_settings: the first save inserts
\* the row and every later save updates that same row.  Under SpecSettings
\* the table starts empty, there is one page session, and a row enters the
\* table only through a handleSave whose insert succeeded.
C23_AtMostOneSettingsRow == Len(homepage_settings) <= 1

====
